---- MODULE Spec2Model ----
(***************************************************************************)
(* Model of the twitch-miner-go orchestrator core.                         *)
(*                                                                         *)
(* Part I   the prediction engine (miner prediction handlers, the bet      *)
(*          timer callback and twitch.Client.MakePrediction).              *)
(* Part II  the PubSub connections and the connection pool with its        *)
(*          reconnect supervision.                                         *)
(* Part III the tracked-streamer set: startup resolution, the topic        *)
(*          derivation and the category watcher.                           *)
(* Part IV  the GQL client's retry loop and circuit breaker.               *)
(* Part V   chat presence and the PubSub message handler.                  *)
(* Part VI  stream state, cancellation and the category watcher's shutdown. *)
(* Part VII the PubSub keepalive.                                          *)
(* Part VIII the watch scheduler.                                          *)
(* Part IX  the minutes watched of a stream.                               *)
(* Part X   bets: the outcome statistics, the decision, the skip filter,   *)
(*          the points history and the notifications.                      *)
(* Part XI  the lock of the streamer list and the locks of the streamers.  *)
(*                                                                         *)
(* The prediction engine shares no state with the pool and the streamer    *)
(* set, so each has its own specification over the same variables.         *)
(***************************************************************************)
EXTENDS Integers, Sequences, FiniteSets, TLC

VARIABLES
    \* -- prediction engine
    eventsPredictions,  \* Miner.eventsPredictions: event id -> object (0 = no entry)
    pendingTimers,      \* Miner.pendingTimers: event id -> timer (0 = no entry)
    events,             \* the EventPrediction objects ever allocated
    nextEv,             \* next EventPrediction object to allocate
    timer,              \* per bet timer: position of the timer / its callback
    cbPrediction,       \* per bet timer: the `prediction` pointer its callback read
    creating,           \* timer created by handlePredictionCreated, not yet stored
    gqlCalls,           \* per event id: MakePrediction GQL requests issued
    lastHandled,        \* the message the router handled last
    \* -- PubSub pool
    conns,       \* Pool.conns: the connection object in each pool slot
    connection,  \* the Connection objects
    run,         \* per connection: position of the goroutine executing Connection.Run
    sup,         \* per connection handed to runConnection: position and locals
    orphans,     \* connections dialed by reconnect and not installed in the pool
    call,        \* the Pool call the miner has in progress
    subscribed,  \* topics subscribed through the pool and not unsubscribed since
    \* -- miner and category watcher
    phase,              \* position of Miner.Run
    cfg,                \* the parts of Miner.cfg read after resolveStreamers
    streamers,          \* Miner.streamers
    categoryStreamers,  \* CategoryWatcher.categoryStreamers[slug] of the one category
    cw,                 \* position of CategoryWatcher.evaluate
    picks,              \* streamers added by the category watcher so far
    \* -- GQL client
    breaker,       \* Client.breaker: consecutiveFails and cooldownUntil
    maxRetries,    \* Client.maxRetries
    clock,         \* time.Now(), in units of 30 s
    req,           \* per caller: position in doHTTPRequest, locals, last result
    failedRuns,    \* requests that exhausted their retries since the last success
    lastFailedAt,  \* time at which the last such request returned
    \* -- chat presence and the PubSub message handler
    channels,      \* chat.Manager.channels: the joined channels
    handler,       \* position of Miner.handleMessage and the streamer it looked up
    \* -- stream state, cancellation and the category watcher's removals
    live,          \* per channel: IsOnline and Stream.Game of its tracked Streamer
    ctxDone,       \* the miner's context is cancelled
    returned,      \* Miner.Run has returned
    removal,       \* reason argument of the removeStreamer call in progress
    \* -- PubSub keepalive
    pinging,       \* per connection: position of its pingLoop goroutine
    sincePong,     \* per connection: minutes since Connection.lastPong
    \* -- watch scheduler
    snapshot,      \* the streamers returned by getStreamers, as the tick reads them
    priorities,    \* Miner.priorities
    toWatch,       \* indices into snapshot of the streamers selected by the tick
    ticked,        \* runMinuteWatcher has handled a tick
    \* -- watch streak
    stream,        \* per channel: MinuteWatched and minuteWatchedTimestamp of its Stream
    sending,       \* channels with a minute-watched request in flight
    \* -- bets, history and notifications
    bets,          \* per EventPrediction object: its Bet and its Result
    history,       \* Streamer.History of the streamer the predictions belong to
    notified,      \* event tags the last handler or callback step gave to Logger.Event
    \* -- locks
    streamersMu,   \* Miner.streamersMu: the tasks that hold it
    mu,            \* per channel: the holder of its Streamer.Mu write lock
    lookup,        \* position of the handler's getStreamerByChannelID call
    updating,      \* per channel: position of Client.updateStream on its streamer
    \* -- the way of a message
    messages,          \* per connection: Connection.messages, the buffered channel
    lastMsgIdentifier, \* per connection: identifier and timestamp of the last message
    published,         \* per connection: how many messages its reader has published
    forwarding,        \* per connection: the message its forwarder holds
    poolMerged,        \* Pool.merged, the buffered channel
    handled,           \* the messages the handler was invoked for, in order
    \* -- the GQL client's attempts
    lastResponse,  \* per caller: what its last HTTP attempt ended with
    waited,        \* per caller: seconds of backoff before its current attempt
    \* -- minute-watched heartbeat
    heartbeat,     \* Miner.runMinuteWatcher: its position, the streamers of the tick and their results
    \* -- locks
    lockHolders,     \* per lock: the goroutine that holds or awaits it for writing, and its readers
    routine,       \* per goroutine: the steps left of the routine it runs
    \* -- goroutines
    task           \* the positions of the long-lived goroutines of Miner.Run and Pool.Run

predVars == <<eventsPredictions, pendingTimers, events, nextEv, timer,
              cbPrediction, creating, gqlCalls, lastHandled>>

poolVars == <<conns, connection, run, sup, orphans, call, subscribed>>

minerVars == <<phase, cfg, streamers, categoryStreamers, cw, picks>>

gqlVars == <<breaker, maxRetries, clock, req, failedRuns, lastFailedAt>>

\* The variables of the parts after Part III.
chatVars == <<channels, handler>>

\* Cancellation and return of Miner.Run.
runVars == <<ctxDone, returned>>

catVars == <<live, removal, runVars>>

pingVars == <<pinging, sincePong>>

schedVars == <<snapshot, priorities, toWatch, ticked>>

streakVars == <<stream, sending>>

betVars == <<bets, history, notified>>

lockVars == <<streamersMu, mu, lookup, updating>>

flowVars == <<messages, lastMsgIdentifier, published, forwarding, poolMerged, handled>>

retryVars == <<lastResponse, waited>>

heartbeatVars == <<heartbeat>>

mutexVars == <<lockHolders, routine>>

taskVars == <<task>>

\* The state of Part X and later.
laterVars == <<betVars, lockVars, flowVars, retryVars, heartbeatVars, mutexVars, taskVars>>

\* The state of Parts IX and later.
lateVars == <<streakVars, laterVars>>

\* What the prediction handlers of Part I leave alone: everything but their
\* own state and the bets.
outsideVars == <<poolVars, minerVars, gqlVars, chatVars, catVars, pingVars, schedVars,
                 streakVars, lockVars, flowVars, retryVars, heartbeatVars, mutexVars, taskVars>>

\* What the steps of Part XI leave alone.
notLockVars == <<predVars, poolVars, minerVars, gqlVars, chatVars, catVars, pingVars,
                 schedVars, streakVars, betVars, flowVars, retryVars, heartbeatVars, mutexVars, taskVars>>

\* What the steps of Part XII leave alone.
notFlowVars == <<predVars, poolVars, minerVars, gqlVars, chatVars, catVars, pingVars,
                 schedVars, streakVars, betVars, lockVars, retryVars, heartbeatVars, mutexVars, taskVars>>

\* What the GQL client's request loop leaves alone.
notGqlVars == <<predVars, poolVars, minerVars, chatVars, catVars, pingVars, schedVars,
                streakVars, betVars, lockVars, flowVars, heartbeatVars, mutexVars, taskVars>>

auxVars == <<gqlVars, chatVars, catVars, pingVars, schedVars, lateVars>>

vars == <<predVars, poolVars, minerVars, auxVars>>

(***************************************************************************)
(* Part I: prediction engine                                               *)
(***************************************************************************)

\* Number of distinct prediction event ids the server talks about.
NumEventIDs == 2
\* Number of EventPrediction objects (and bet timers) created in one run.
MaxEventObjs == 2

EventIDs == 1..NumEventIDs
EvObjs == 1..MaxEventObjs


NoEvent == [id |-> 0, status |-> "NONE", betPlaced |-> FALSE, betConfirmed |-> FALSE]

\* model.NewEventPrediction: a fresh event, neither placed nor confirmed.
NewEventPrediction(e, status) ==
    [id |-> e, status |-> status, betPlaced |-> FALSE, betConfirmed |-> FALSE]

Statuses == {"ACTIVE", "LOCKED"}

NoMessage == [type |-> "none", id |-> 0, found |-> FALSE]

PredInit ==
    /\ eventsPredictions = [e \in EventIDs |-> 0]
    /\ pendingTimers = [e \in EventIDs |-> 0]
    /\ events = [o \in EvObjs |-> NoEvent]
    /\ nextEv = 1
    /\ timer = [o \in EvObjs |-> "none"]
    /\ cbPrediction = [o \in EvObjs |-> 0]
    /\ creating = 0
    /\ gqlCalls = [e \in EventIDs |-> 0]
    /\ lastHandled = NoMessage

\* The router is the single reader of the merged channel: it takes the next
\* message only when the previous handler has returned, and it has returned
\* itself when Miner.Run returns.
RouterIdle == creating = 0 /\ ~returned

\* Miner.handlePredictionCreated, up to and including time.AfterFunc.
\* eligible: makePredictions && isOnline; windowOpen: secondsUntilClose > 0;
\* enoughPoints: !(MinimumPoints > 0 && balance < MinimumPoints).
HandlePredictionCreated(e, status, eligible, windowOpen, enoughPoints) ==
    /\ RouterIdle
    /\ lastHandled' = [type |-> "created", id |-> e, found |-> eventsPredictions[e] # 0]
    /\ IF /\ eventsPredictions[e] = 0
          /\ status = "ACTIVE"
          /\ eligible
          /\ windowOpen
          /\ enoughPoints
          /\ nextEv <= MaxEventObjs
       THEN /\ events' = [events EXCEPT ![nextEv] = NewEventPrediction(e, status)]
            /\ eventsPredictions' = [eventsPredictions EXCEPT ![e] = nextEv]
            /\ timer' = [timer EXCEPT ![nextEv] = "armed"]
            /\ creating' = nextEv
            /\ nextEv' = nextEv + 1
       ELSE UNCHANGED <<events, eventsPredictions, timer, creating, nextEv>>
    /\ UNCHANGED <<pendingTimers, cbPrediction, gqlCalls>>
    /\ UNCHANGED outsideVars

\* Miner.handlePredictionCreated, the tail: m.pendingTimers[eventID] = betTimer.
HandlePredictionCreatedStore ==
    /\ creating # 0
    /\ pendingTimers' = [pendingTimers EXCEPT ![events[creating].id] = creating]
    /\ creating' = 0
    /\ UNCHANGED <<eventsPredictions, events, nextEv, timer, cbPrediction,
                   gqlCalls, lastHandled>>
    /\ UNCHANGED outsideVars

\* Miner.handlePredictionUpdated: the status of a live event follows the message.
HandlePredictionUpdated(e, status) ==
    /\ RouterIdle
    /\ lastHandled' = [type |-> "updated", id |-> e, found |-> eventsPredictions[e] # 0]
    /\ IF eventsPredictions[e] # 0
       THEN events' = [events EXCEPT ![eventsPredictions[e]].status = status]
       ELSE UNCHANGED events
    /\ UNCHANGED <<eventsPredictions, pendingTimers, nextEv, timer, cbPrediction,
                   creating, gqlCalls>>
    /\ UNCHANGED outsideVars

\* Miner.handlePredictionLocked.
HandlePredictionLocked(e, status) ==
    /\ RouterIdle
    /\ lastHandled' = [type |-> "locked", id |-> e, found |-> eventsPredictions[e] # 0]
    /\ IF eventsPredictions[e] # 0
       THEN events' = [events EXCEPT ![eventsPredictions[e]].status = status]
       ELSE UNCHANGED events
    /\ UNCHANGED <<eventsPredictions, pendingTimers, nextEv, timer, cbPrediction,
                   creating, gqlCalls>>
    /\ UNCHANGED outsideVars

\* Miner.handlePredictionsUser + handlePredictionMade ("prediction-made").
HandlePredictionMade(e) ==
    /\ RouterIdle
    /\ lastHandled' = [type |-> "made", id |-> e, found |-> eventsPredictions[e] # 0]
    /\ IF eventsPredictions[e] # 0
       THEN events' = [events EXCEPT ![eventsPredictions[e]].betConfirmed = TRUE]
       ELSE UNCHANGED events
    /\ UNCHANGED <<eventsPredictions, pendingTimers, nextEv, timer, cbPrediction,
                   creating, gqlCalls>>
    /\ UNCHANGED outsideVars

\* time.Timer.Stop: prevents the callback only if the timer has not fired yet.
TimerStop(tm, t) ==
    IF t # 0 /\ tm[t] = "armed" THEN [tm EXCEPT ![t] = "stopped"] ELSE tm

\* Miner.handlePredictionsUser + handlePredictionResult ("prediction-result").
\* hasResult: the payload carries a "result" object.
HandlePredictionResult(e, hasResult) ==
    /\ RouterIdle
    /\ lastHandled' = [type |-> "result", id |-> e, found |-> eventsPredictions[e] # 0]
    /\ IF /\ eventsPredictions[e] # 0
          /\ events[eventsPredictions[e]].betConfirmed
          /\ hasResult
       THEN /\ timer' = TimerStop(timer, pendingTimers[e])
            /\ pendingTimers' = [pendingTimers EXCEPT ![e] = 0]
            /\ eventsPredictions' = [eventsPredictions EXCEPT ![e] = 0]
       ELSE UNCHANGED <<timer, pendingTimers, eventsPredictions>>
    /\ UNCHANGED <<events, nextEv, cbPrediction, creating, gqlCalls>>
    /\ UNCHANGED outsideVars

\* The runtime fires an armed timer: the AfterFunc callback starts.
TimerFire(t) ==
    /\ timer[t] = "armed"
    /\ timer' = [timer EXCEPT ![t] = "cb_delete"]
    /\ UNCHANGED <<eventsPredictions, pendingTimers, events, nextEv, cbPrediction,
                   creating, gqlCalls, lastHandled>>
    /\ UNCHANGED outsideVars

\* Callback: delete(m.pendingTimers, eventID).
CbDelete(t) ==
    /\ timer[t] = "cb_delete"
    /\ pendingTimers' = [pendingTimers EXCEPT ![events[t].id] = 0]
    /\ timer' = [timer EXCEPT ![t] = "cb_lookup"]
    /\ UNCHANGED <<eventsPredictions, events, nextEv, cbPrediction, creating,
                   gqlCalls, lastHandled>>
    /\ UNCHANGED outsideVars

\* Callback: prediction, ok := m.eventsPredictions[eventID]; return if !ok.
CbLookup(t) ==
    /\ timer[t] = "cb_lookup"
    /\ cbPrediction' = [cbPrediction EXCEPT ![t] = eventsPredictions[events[t].id]]
    /\ timer' = [timer EXCEPT ![t] =
                    IF eventsPredictions[events[t].id] = 0 THEN "done" ELSE "cb_decide"]
    /\ UNCHANGED <<eventsPredictions, pendingTimers, events, nextEv, creating,
                   gqlCalls, lastHandled>>
    /\ UNCHANGED outsideVars

\* twitch.Client.MakePrediction up to the GQL request: the status check, the
\* skip filter and the minimum amount. skip / amountOk are the results of
\* Bet.Skip and of decision.Amount >= 10 on the current outcomes and balance.
CbDecide(t, skip, amountOk) ==
    /\ timer[t] = "cb_decide"
    /\ timer' = [timer EXCEPT ![t] =
                    IF events[cbPrediction[t]].status = "ACTIVE" /\ ~skip /\ amountOk
                    THEN "cb_call" ELSE "done"]
    /\ UNCHANGED <<eventsPredictions, pendingTimers, events, nextEv, cbPrediction,
                   creating, gqlCalls, lastHandled>>
    /\ UNCHANGED outsideVars

\* twitch.Client.MakePrediction: c.GQL.MakePrediction(ctx, eventID, ...).
CbCall(t, ok) ==
    /\ timer[t] = "cb_call"
    /\ gqlCalls' = [gqlCalls EXCEPT ![events[cbPrediction[t]].id] = @ + 1]
    /\ timer' = [timer EXCEPT ![t] = IF ok THEN "cb_mark" ELSE "done"]
    /\ UNCHANGED <<eventsPredictions, pendingTimers, events, nextEv, cbPrediction,
                   creating, lastHandled>>
    /\ UNCHANGED outsideVars

\* twitch.Client.MakePrediction: event.BetPlaced = true after a successful request.
CbMark(t) ==
    /\ timer[t] = "cb_mark"
    /\ events' = [events EXCEPT ![cbPrediction[t]].betPlaced = TRUE]
    /\ timer' = [timer EXCEPT ![t] = "done"]
    /\ UNCHANGED <<eventsPredictions, pendingTimers, nextEv, cbPrediction, creating,
                   gqlCalls, lastHandled>>
    /\ UNCHANGED outsideVars

(***************************************************************************)
(* Part X: bets, the points history and the notifications                  *)
(***************************************************************************)

\* utils.FloatRound(x, 2): a value with two decimals is kept as a whole number
\* of hundredths, and so is every value a filter compares.
Hundredths == 100

\* math.Round of n / d for non-negative n and positive d.
Round(n, d) == (2 * n + d) \div (2 * d)

\* Highest history counter a points-earned message is handled at.
MaxCounter == 1

ReasonCodes == {"PREDICTION", "REFUND", "WATCH"}

ResultTypes == {"WIN", "LOSE", "REFUND"}

\* parseOutcomes: one outcome of a message. The statistics stay at their zero
\* values.
parseOutcome(users, points) ==
    [totalUsers |-> users, totalPoints |-> points, topPoints |-> 0,
     percentageUsers |-> 0, odds |-> 0, oddsPercentage |-> 0]

NoFilter == [by |-> "none", where |-> "none", value |-> 0]

\* model.DefaultBetSettings.
DefaultBetSettings ==
    [strategy |-> "SMART", percentage |-> 5, percentageGap |-> 20, maxPoints |-> 50000,
     minimumPoints |-> 0, stealthMode |-> FALSE, filterCondition |-> NoFilter]

\* model.NewBet.
NewBet(outcomes, settings) ==
    [outcomes |-> outcomes, choice |-> -1, amount |-> 0, totalUsers |-> 0,
     totalPoints |-> 0, settings |-> settings]

NoResult == [type |-> "", gained |-> 0]

NoBet == [bet |-> NewBet(<<>>, DefaultBetSettings), result |-> NoResult]

RECURSIVE SumField(_, _)
SumField(outcomes, field) ==
    IF outcomes = <<>> THEN 0 ELSE Head(outcomes)[field] + SumField(Tail(outcomes), field)

\* Bet.UpdateOutcomes.
UpdateOutcomes(b, updates) ==
    LET merged ==
            [i \in 1..Len(b.outcomes) |->
                IF i > Len(updates) THEN b.outcomes[i]
                ELSE [b.outcomes[i] EXCEPT
                        !.totalUsers = updates[i].totalUsers,
                        !.totalPoints = updates[i].totalPoints,
                        !.topPoints = IF updates[i].topPoints > 0
                                      THEN updates[i].topPoints ELSE @]]
        users == SumField(merged, "totalUsers")
        points == SumField(merged, "totalPoints")
        statistics(o) ==
            LET odds == IF o.totalPoints = 0 THEN 0
                        ELSE Round(Hundredths * points, o.totalPoints)
            IN  [o EXCEPT
                    !.percentageUsers = Round(Hundredths * 100 * o.totalUsers, users),
                    !.odds = odds,
                    !.oddsPercentage = IF odds = 0 THEN 0
                                       ELSE Round(Hundredths * 100 * Hundredths, odds)]
    IN  [b EXCEPT
            !.outcomes = IF users > 0 /\ points > 0
                         THEN [i \in 1..Len(merged) |-> statistics(merged[i])]
                         ELSE merged,
            !.totalUsers = users,
            !.totalPoints = points]

\* Bet.outcomeValue, in hundredths. index counts from 0 as in the code.
outcomeValue(b, index, key) ==
    LET outcome == b.outcomes[index + 1]
    IN  CASE key = "total_users" -> Hundredths * outcome.totalUsers
          [] key = "total_points" -> Hundredths * outcome.totalPoints
          [] key = "percentage_users" -> outcome.percentageUsers
          [] key = "odds" -> outcome.odds
          [] key = "odds_percentage" -> outcome.oddsPercentage
          [] key = "top_points" -> Hundredths * outcome.topPoints
          [] OTHER -> 0

\* Bet.returnChoice: the loop from outcome i on.
RECURSIVE largestFrom(_, _, _, _)
largestFrom(b, key, i, largest) ==
    IF i >= Len(b.outcomes) THEN largest
    ELSE largestFrom(b, key, i + 1,
                     IF outcomeValue(b, i, key) > outcomeValue(b, largest, key)
                     THEN i ELSE largest)

\* Bet.returnChoice.
returnChoice(b, key) == largestFrom(b, key, 0, 0)

\* Bet.returnNumberChoice.
returnNumberChoice(b, number) == IF Len(b.outcomes) > number THEN number ELSE 0

\* A strategy that always takes the first outcome, for comparison with
\* smartChoice.
firstChoice(b) == 0

\* Bet.Calculate, case StrategySmart with two outcomes or more.
smartChoice(b) ==
    LET first == b.outcomes[1].percentageUsers
        second == b.outcomes[2].percentageUsers
        difference == IF first > second THEN first - second ELSE second - first
    IN  IF difference < Hundredths * b.settings.percentageGap
        THEN returnChoice(b, "odds")
        ELSE returnChoice(b, "total_users")

\* Bet.Calculate: the bet with its new decision. stealthReduction is
\* int(1.0 + rand.Float64()*4.0).
Calculate(b, balance, stealthReduction) ==
    LET strategy == b.settings.strategy
        choice ==
            CASE strategy = "MOST_VOTED" -> returnChoice(b, "total_users")
              [] strategy = "HIGH_ODDS" -> returnChoice(b, "odds")
              [] strategy = "PERCENTAGE" -> returnChoice(b, "odds_percentage")
              [] strategy = "SMART_MONEY" -> returnChoice(b, "top_points")
              [] strategy = "NUMBER_1" -> returnNumberChoice(b, 0)
              [] strategy = "NUMBER_2" -> returnNumberChoice(b, 1)
              [] strategy = "NUMBER_3" -> returnNumberChoice(b, 2)
              [] strategy = "NUMBER_4" -> returnNumberChoice(b, 3)
              [] strategy = "NUMBER_5" -> returnNumberChoice(b, 4)
              [] strategy = "NUMBER_6" -> returnNumberChoice(b, 5)
              [] strategy = "NUMBER_7" -> returnNumberChoice(b, 6)
              [] strategy = "NUMBER_8" -> returnNumberChoice(b, 7)
              [] strategy = "SMART" /\ Len(b.outcomes) >= 2 -> smartChoice(b)
              [] OTHER -> -1
        percentage == (balance * b.settings.percentage) \div 100
        capped == IF percentage > b.settings.maxPoints THEN b.settings.maxPoints
                  ELSE percentage
        top == b.outcomes[choice + 1].topPoints
        amount == IF b.settings.stealthMode /\ capped >= top /\ top > 0
                  THEN top - stealthReduction ELSE capped
    IN  IF choice >= 0 /\ choice < Len(b.outcomes)
        THEN [b EXCEPT !.choice = choice, !.amount = amount]
        ELSE [b EXCEPT !.choice = choice, !.amount = 0]

\* Bet.Skip: the key whose value is read.
resolvedKey(key) ==
    CASE key = "decision_users" -> "total_users"
      [] key = "decision_points" -> "total_points"
      [] OTHER -> key

RECURSIVE sumValues(_, _, _)
sumValues(b, key, i) ==
    IF i >= Len(b.outcomes) THEN 0 ELSE outcomeValue(b, i, key) + sumValues(b, key, i + 1)

\* Bet.Skip: comparedValue, in hundredths, of a bet with a filter.
comparedValue(b) ==
    LET key == b.settings.filterCondition.by
    IN  IF key = "total_users" \/ key = "total_points"
        THEN sumValues(b, resolvedKey(key), 0)
        ELSE outcomeValue(b, b.choice, resolvedKey(key))

\* Bet.Skip: whether the bet is skipped.
Skip(b) ==
    LET fc == b.settings.filterCondition
    IN  IF fc = NoFilter THEN FALSE
        ELSE CASE fc.where = "GT" -> ~(comparedValue(b) > fc.value)
               [] fc.where = "LT" -> ~(comparedValue(b) < fc.value)
               [] fc.where = "GTE" -> ~(comparedValue(b) >= fc.value)
               [] fc.where = "LTE" -> ~(comparedValue(b) <= fc.value)
               [] OTHER -> TRUE

\* EventPrediction.ParseResult: the points map, a missing key reading 0.
ParseResult(b, resultType, pointsWon) ==
    LET placed == IF resultType # "REFUND" THEN b.amount ELSE 0
        won == IF pointsWon > 0 \/ resultType = "REFUND" THEN pointsWon ELSE 0
    IN  [placed |-> placed, won |-> won,
         gained |-> IF resultType # "REFUND" THEN won - placed ELSE 0]

\* Streamer.UpdateHistory on the History map, a missing entry reading as the
\* zero entry.
UpdateHistory(h, reasonCode, earned, counter) ==
    [h EXCEPT ![reasonCode] = [counter |-> @.counter + counter,
                               amount |-> @.amount + earned]]

\* Miner.handlePredictionResult: the history updates for a tracked streamer.
resultHistory(h, resultType, points) ==
    LET first == UpdateHistory(h, "PREDICTION", points.gained, 1)
    IN  IF resultType = "REFUND" THEN UpdateHistory(first, "REFUND", -points.placed, -1)
        ELSE IF resultType = "WIN" THEN UpdateHistory(first, "PREDICTION", -points.won, -1)
        ELSE first

\* Miner.handlePredictionResult: the tag of the notification.
notifyEvent(resultType) ==
    CASE resultType = "WIN" -> "BET_WIN"
      [] resultType = "LOSE" -> "BET_LOSE"
      [] resultType = "REFUND" -> "BET_REFUND"
      [] OTHER -> "BET_GENERAL"

\* mapReasonToEvent.
mapReasonToEvent(reasonCode) ==
    CASE reasonCode = "CLAIM" -> "GAIN_FOR_CLAIM"
      [] reasonCode = "RAID" -> "GAIN_FOR_RAID"
      [] reasonCode = "WATCH_STREAK" -> "GAIN_FOR_WATCH_STREAK"
      [] OTHER -> "GAIN_FOR_WATCH"

BetInit ==
    /\ bets = [o \in EvObjs |-> NoBet]
    /\ history = [r \in ReasonCodes |-> [counter |-> 0, amount |-> 0]]
    /\ notified = {}

\* A step of the prediction engine that calls neither Logger.Event nor
\* anything that writes a bet or the history.
quiet(step) ==
    /\ step
    /\ notified' = {}
    /\ UNCHANGED <<bets, history>>

\* Miner.handlePredictionCreated with the bet it builds and its notifications.
\* balance is streamer.ChannelPoints and settings is streamer.Settings.Bet.
handlePredictionCreated(e, status, eligible, windowOpen, balance, outcomes, settings) ==
    LET enoughPoints == ~(settings.minimumPoints > 0 /\ balance < settings.minimumPoints)
        reachesWindow == eventsPredictions[e] = 0 /\ status = "ACTIVE" /\ eligible
                         /\ windowOpen /\ nextEv <= MaxEventObjs
    IN  /\ HandlePredictionCreated(e, status, eligible, windowOpen, enoughPoints)
        /\ bets' = IF reachesWindow /\ enoughPoints
                   THEN [bets EXCEPT ![nextEv] =
                            [bet |-> NewBet(outcomes, settings), result |-> NoResult]]
                   ELSE bets
        /\ notified' = IF ~reachesWindow THEN {}
                       ELSE IF enoughPoints THEN {"BET_START"} ELSE {"BET_FILTERS"}
        /\ UNCHANGED history

\* Miner.handlePredictionUpdated with the outcomes of the message.
handlePredictionUpdated(e, status, outcomes) ==
    LET o == eventsPredictions[e]
    IN  /\ HandlePredictionUpdated(e, status)
        /\ bets' = IF o # 0 /\ ~events[o].betPlaced /\ bets[o].bet.choice = -1
                   THEN [bets EXCEPT ![o].bet = UpdateOutcomes(@, outcomes)]
                   ELSE bets
        /\ notified' = {}
        /\ UNCHANGED history

\* twitch.Client.MakePrediction up to the GQL request, with the decision it
\* writes. Every log call on this path is Logger.Info.
MakePrediction(t, balance, stealthReduction) ==
    /\ timer[t] = "cb_decide"
    /\ LET b == Calculate(bets[cbPrediction[t]].bet, balance, stealthReduction)
       IN  /\ CbDecide(t, Skip(b), b.amount >= 10)
           /\ bets' = [bets EXCEPT ![cbPrediction[t]].bet = b]
    /\ notified' = {}
    /\ UNCHANGED history

\* Miner.handlePredictionResult with the result it stores, its notification
\* and the history of the streamer. tracked: streamer != nil.
handlePredictionResult(e, hasResult, tracked, resultType, pointsWon) ==
    LET o == eventsPredictions[e]
    IN  /\ HandlePredictionResult(e, hasResult)
        /\ IF o # 0 /\ events[o].betConfirmed /\ hasResult
           THEN LET points == ParseResult(bets[o].bet, resultType, pointsWon)
                IN  /\ bets' = [bets EXCEPT ![o].result =
                                    [type |-> resultType, gained |-> points.gained]]
                    /\ notified' = {notifyEvent(resultType)}
                    /\ history' = IF tracked THEN resultHistory(history, resultType, points)
                                  ELSE history
           ELSE /\ notified' = {}
                /\ UNCHANGED <<bets, history>>

\* Miner.handlePointsEarnedOrSpent for a points-earned message with a
\* point_gain and a tracked streamer.
handlePointsEarnedOrSpent(reasonCode, earned) ==
    /\ RouterIdle
    /\ history[reasonCode].counter < MaxCounter
    /\ lastHandled' = [type |-> "points-earned", id |-> 0, found |-> FALSE]
    /\ history' = UpdateHistory(history, reasonCode, earned, 1)
    /\ notified' = {mapReasonToEvent(reasonCode)}
    /\ UNCHANGED <<eventsPredictions, pendingTimers, events, nextEv, timer, cbPrediction,
                   creating, gqlCalls, bets>>
    /\ UNCHANGED outsideVars

(***************************************************************************)
(* Part II: PubSub connections and the connection pool                     *)
(***************************************************************************)

\* constants.MaxTopicsPerConn is 50 in the program; scaled down here.
MaxTopicsPerConn == 2
\* constants.MaxPubSubConns is 10 in the program; scaled down here.
MaxPubSubConns == 2
\* Capacity of Connection.writeCh, 64 in the program; scaled down, and like in
\* the program larger than MaxTopicsPerConn.
WriteChCap == 3
\* Connections dialed by reconnect that never enter the pool are counted up
\* to this bound.
MaxOrphans == 1
\* Number of Twitch channels (login / channel id pairs) that exist.
NumChannels == 2

Channels == 1..NumChannels
\* Connection objects: the connection created for pool slot i is object i, the
\* connection dialed by reconnect to replace it is object MaxPubSubConns + i.
ConnIds == 1..(2 * MaxPubSubConns)
Replacement(c) == c + MaxPubSubConns
NoConn == 0

PubSubTopicVideoPlayback == "video-playback-by-id"
PubSubTopicCommunityPoints == "community-points-user-v1"
PubSubTopicPredictions == "predictions-channel-v1"
PubSubTopicPredictionsUser == "predictions-user-v1"
PubSubTopicRaid == "raid"
PubSubTopicCommunityMoments == "community-moments-channel-v1"
PubSubTopicCommunityGoals == "community-points-channel-v1"

\* A PubSubTopic: streamer = 0 stands for Streamer == nil (a user topic, whose
\* id is the one authenticated user); otherwise streamer is the channel id.
\* Two topics have the same String() exactly when the records are equal.
NewUserTopic(topicType) == [topicType |-> topicType, streamer |-> 0]
NewStreamerTopic(topicType, channelID) == [topicType |-> topicType, streamer |-> channelID]
IsUserTopic(topic) == topic.streamer = 0

Range(s) == {s[i] : i \in 1..Len(s)}
Least(S) == CHOOSE x \in S : \A y \in S : x <= y

RECURSIVE RemoveFirst(_, _)
RemoveFirst(s, x) ==
    IF s = <<>> THEN <<>>
    ELSE IF Head(s) = x THEN Tail(s)
    ELSE <<Head(s)>> \o RemoveFirst(Tail(s), x)


\* ---- Connection ---------------------------------------------------------

\* listened: topics with a LISTEN frame enqueued and no UNLISTEN frame since.
\* writing: a writeLoop goroutine is draining writeCh.
NoConnection ==
    [socket |-> "none", topics |-> <<>>, pendingTopics |-> <<>>,
     isConnected |-> FALSE, writeCh |-> 0, listened |-> {}, writing |-> FALSE]

\* NewConnection after a successful dial.
NewConnection ==
    [socket |-> "open", topics |-> <<>>, pendingTopics |-> <<>>,
     isConnected |-> TRUE, writeCh |-> 0, listened |-> {}, writing |-> FALSE]

hasTopic(c, topic) == topic \in Range(c.topics)

\* sendRequest: a non-blocking send on writeCh; fails when the channel is full.
sendRequest(c) == [c EXCEPT !.writeCh = @ + 1]
writeChFull(c) == c.writeCh >= WriteChCap

sendListen(c, topic) ==
    IF writeChFull(c) THEN c
    ELSE [sendRequest(c) EXCEPT !.listened = @ \cup {topic}]

enqueuePing(c) == IF writeChFull(c) THEN c ELSE sendRequest(c)

\* Connection.Subscribe: the topic is appended before the LISTEN is sent, and
\* the first failing send aborts the call with an error.
RECURSIVE ConnectionSubscribe(_, _)
ConnectionSubscribe(c, topics) ==
    IF topics = <<>> THEN [conn |-> c, err |-> FALSE]
    ELSE LET topic == Head(topics) IN
         IF hasTopic(c, topic) THEN ConnectionSubscribe(c, Tail(topics))
         ELSE LET c1 == [c EXCEPT !.topics = Append(@, topic)] IN
              IF ~c1.isConnected
              THEN ConnectionSubscribe([c1 EXCEPT !.pendingTopics = Append(@, topic)],
                                       Tail(topics))
              ELSE IF writeChFull(c1) THEN [conn |-> c1, err |-> TRUE]
              ELSE ConnectionSubscribe(sendListen(c1, topic), Tail(topics))

\* Connection.removeTopic: removes from topics, and only if the topic is not
\* there from pendingTopics.
removeTopic(c, topic) ==
    IF topic \in Range(c.topics) THEN [c EXCEPT !.topics = RemoveFirst(@, topic)]
    ELSE [c EXCEPT !.pendingTopics = RemoveFirst(@, topic)]

\* Connection.Unsubscribe of one topic: nothing is removed when the UNLISTEN
\* frame cannot be enqueued.
ConnectionUnsubscribe(c, topic) ==
    IF writeChFull(c) THEN c
    ELSE removeTopic([sendRequest(c) EXCEPT !.listened = @ \ {topic}], topic)

\* Connection.Run before readLoop: the pending topics are sent best-effort.
RECURSIVE SendPending(_, _)
SendPending(c, topics) ==
    IF topics = <<>> THEN c
    ELSE SendPending(sendListen(c, Head(topics)), Tail(topics))

TopicCount(c) == Len(connection[c].topics)

HasCapacity(c) == TopicCount(c) < MaxTopicsPerConn

\* ---- Pool ---------------------------------------------------------------

InPool(c) == \E i \in 1..Len(conns) : conns[i] = c

RECURSIVE SumTopics(_)
SumTopics(cs) == IF cs = <<>> THEN 0 ELSE TopicCount(Head(cs)) + SumTopics(Tail(cs))

\* Pool.TotalTopicCount.
TotalTopicCount == SumTopics(conns)

\* The topics the pool's connections hold.
PoolTopics == UNION {Range(connection[conns[i]].topics) : i \in 1..Len(conns)}

NoCall == [op |-> "idle", rest |-> <<>>, channel |-> 0, locked |-> FALSE, err |-> FALSE]
NoSupervisor == [pc |-> "none", topics |-> <<>>, newConn |-> NoConn]

\* Pool.mu is held by Subscribe for the whole call, and by Unsubscribe from its
\* first topic to its return; UnsubscribeStreamer releases it between
\* collecting the topics and calling Unsubscribe.
PoolMuHeld == call.op = "sub" \/ (call.op = "unsub" /\ call.locked)

PoolInit ==
    /\ conns = <<>>
    /\ connection = [c \in ConnIds |-> NoConnection]
    /\ run = [c \in ConnIds |-> "idle"]
    /\ sup = [c \in ConnIds |-> NoSupervisor]
    /\ orphans = 0
    /\ call = NoCall
    /\ subscribed = {}

\* The call returns: with an error, or after its last topic.
CallAfter(err) ==
    IF err THEN [call EXCEPT !.op = "ret", !.rest = <<>>, !.locked = FALSE, !.err = TRUE]
    ELSE IF Tail(call.rest) = <<>>
         THEN [call EXCEPT !.op = "ret", !.rest = <<>>, !.locked = FALSE]
         ELSE [call EXCEPT !.rest = Tail(@), !.locked = TRUE]

\* A pool that never counts as full, for comparison with AtMaxConns.
neverAtMaxConns == FALSE

\* subscribeSingle: len(p.conns) >= p.maxConns.
AtMaxConns == Len(conns) >= MaxPubSubConns

\* Pool.Subscribe, one iteration of its loop, with subscribeSingle: the first
\* connection with capacity takes the topic, else a new connection is dialed.
PoolSubscribe(dialOk) ==
    /\ call.op = "sub"
    /\ call.rest # <<>>
    /\ LET topic == Head(call.rest)
           free == {i \in 1..Len(conns) : HasCapacity(conns[i])}
       IN  IF free # {}
           THEN LET c == conns[Least(free)]
                    r == ConnectionSubscribe(connection[c], <<topic>>)
                IN  /\ connection' = [connection EXCEPT ![c] = r.conn]
                    /\ subscribed' = IF r.err THEN subscribed ELSE subscribed \cup {topic}
                    /\ call' = CallAfter(r.err)
                    /\ UNCHANGED conns
           ELSE IF AtMaxConns \/ ~dialOk
           THEN /\ call' = CallAfter(TRUE)
                /\ UNCHANGED <<conns, connection, subscribed>>
           ELSE LET c == Len(conns) + 1
                    r == ConnectionSubscribe(NewConnection, <<topic>>)
                IN  /\ conns' = Append(conns, c)
                    /\ connection' = [connection EXCEPT ![c] = r.conn]
                    /\ subscribed' = subscribed \cup {topic}
                    /\ call' = CallAfter(FALSE)
    /\ UNCHANGED <<run, sup, orphans>>
    /\ UNCHANGED <<predVars, minerVars, auxVars>>

RECURSIVE CollectTopics(_, _)
CollectTopics(cs, channelID) ==
    IF cs = <<>> THEN <<>>
    ELSE SelectSeq(connection[Head(cs)].topics,
                   LAMBDA t : ~IsUserTopic(t) /\ t.streamer = channelID)
         \o CollectTopics(Tail(cs), channelID)

\* Pool.UnsubscribeStreamer up to the call of Unsubscribe: the topics of the
\* streamer's channel are collected under the lock, which is then released.
PoolUnsubscribeStreamer ==
    /\ call.op = "collect"
    /\ LET topicsToRemove == CollectTopics(conns, call.channel)
       IN  call' = IF topicsToRemove = <<>>
                   THEN [call EXCEPT !.op = "ret"]
                   ELSE [call EXCEPT !.op = "unsub", !.rest = topicsToRemove]
    /\ UNCHANGED <<conns, connection, run, sup, orphans, subscribed>>
    /\ UNCHANGED <<predVars, minerVars, auxVars>>

\* Pool.Unsubscribe, one iteration of its loop: the first connection holding
\* the topic unsubscribes it; an error of Connection.Unsubscribe is only logged.
PoolUnsubscribe ==
    /\ call.op = "unsub"
    /\ call.rest # <<>>
    /\ LET topic == Head(call.rest)
           holders == {i \in 1..Len(conns) : hasTopic(connection[conns[i]], topic)}
       IN  /\ connection' =
                 IF holders = {} THEN connection
                 ELSE [connection EXCEPT ![conns[Least(holders)]] =
                                            ConnectionUnsubscribe(@, topic)]
           /\ subscribed' = subscribed \ {topic}
           /\ call' = CallAfter(FALSE)
    /\ UNCHANGED <<conns, run, sup, orphans>>
    /\ UNCHANGED <<predVars, minerVars, auxVars>>

\* Pool.Run: every connection in the pool at this moment gets a forwarder and
\* a runConnection supervisor, which starts Connection.Run.
PoolRun ==
    /\ ~PoolMuHeld
    /\ run' = [c \in ConnIds |-> IF InPool(c) THEN "start" ELSE run[c]]
    /\ sup' = [c \in ConnIds |->
                 IF InPool(c) THEN [NoSupervisor EXCEPT !.pc = "inrun"] ELSE sup[c]]
    /\ UNCHANGED <<conns, connection, orphans, call, subscribed>>

\* Connection.Run up to readLoop: the writeLoop starts, a PING is enqueued,
\* the pending topics are sent and the pingLoop starts.
ConnectionRun(c) ==
    /\ run[c] = "start"
    /\ connection' = [connection EXCEPT ![c] =
          [SendPending(enqueuePing([@ EXCEPT !.writing = TRUE]), @.pendingTopics)
              EXCEPT !.pendingTopics = <<>>]]
    /\ run' = [run EXCEPT ![c] = "read"]
    /\ pinging' = [pinging EXCEPT ![c] = "ticking"]
    /\ UNCHANGED <<conns, sup, orphans, call, subscribed>>
    /\ UNCHANGED <<predVars, minerVars, gqlVars, chatVars, catVars, sincePong, schedVars, lateVars>>

\* The transport fails or the server closes the socket.
SocketClose(c) ==
    /\ connection[c].socket = "open"
    /\ connection' = [connection EXCEPT ![c].socket = "closed"]
    /\ UNCHANGED <<conns, run, sup, orphans, call, subscribed>>
    /\ UNCHANGED <<predVars, minerVars, auxVars>>

\* Connection.readLoop: the read fails, isConnected is cleared, Run returns
\* the error and its deferred cancel stops the writeLoop and the pingLoop.
\* lastPong is not read again once the session is over.
readLoop(c) ==
    /\ run[c] = "read"
    /\ connection[c].socket = "closed"
    /\ connection' = [connection EXCEPT ![c].isConnected = FALSE, ![c].writing = FALSE]
    /\ run' = [run EXCEPT ![c] = "exited"]
    /\ pinging' = [pinging EXCEPT ![c] = "stopped"]
    /\ sincePong' = [sincePong EXCEPT ![c] = 0]
    /\ UNCHANGED <<conns, sup, orphans, call, subscribed>>
    /\ UNCHANGED <<predVars, minerVars, gqlVars, chatVars, catVars, schedVars, lateVars>>

\* Connection.writeLoop: takes the queued frames from writeCh and writes them
\* (a failing write is only logged).
writeLoop(c) ==
    /\ connection[c].writing
    /\ connection[c].writeCh > 0
    /\ connection' = [connection EXCEPT ![c].writeCh = 0]
    /\ UNCHANGED <<conns, run, sup, orphans, call, subscribed>>
    /\ UNCHANGED <<predVars, minerVars, auxVars>>

\* Pool.runConnection: conn.Run returned while the context is live; the
\* backoff elapses.
runConnection(c) ==
    /\ sup[c].pc = "inrun"
    /\ run[c] = "exited"
    /\ sup' = [sup EXCEPT ![c].pc = "reconnect"]
    /\ run' = [run EXCEPT ![c] = "idle"]
    /\ UNCHANGED <<conns, connection, orphans, call, subscribed>>
    /\ UNCHANGED <<predVars, minerVars, auxVars>>

\* Pool.reconnect, the topic snapshot and the dial. When the dial fails
\* runConnection continues its loop and runs the same connection again.
reconnectDial(c, dialOk) ==
    /\ sup[c].pc = "reconnect"
    /\ IF dialOk
       THEN /\ sup' = [sup EXCEPT ![c] =
                         [pc |-> "swap", topics |-> connection[c].topics,
                          newConn |-> Replacement(c)]]
            /\ connection' = [connection EXCEPT ![Replacement(c)] = NewConnection]
            /\ run' = run
       ELSE /\ sup' = [sup EXCEPT ![c].pc = "inrun"]
            /\ run' = [run EXCEPT ![c] = "start"]
            /\ connection' = connection
    /\ UNCHANGED <<conns, orphans, call, subscribed>>
    /\ UNCHANGED <<predVars, minerVars, auxVars>>

\* Pool.reconnect, the critical section: the new connection takes the slot
\* of conn.
reconnectSwap(c) ==
    /\ sup[c].pc = "swap"
    /\ ~PoolMuHeld
    /\ conns' = [i \in 1..Len(conns) |-> IF conns[i] = c THEN sup[c].newConn ELSE conns[i]]
    /\ sup' = [sup EXCEPT ![c].pc = "resub"]
    /\ UNCHANGED <<connection, run, orphans, call, subscribed>>
    /\ UNCHANGED <<predVars, minerVars, auxVars>>

\* Pool.reconnect, the tail: newConn.Subscribe(topics) and, when that returned
\* no error, `go newConn.Run(ctx)`. runConnection then loops with the same
\* conn, which is no longer in the pool.
reconnectSubscribe(c) ==
    /\ sup[c].pc = "resub"
    /\ LET n == sup[c].newConn
           r == ConnectionSubscribe(connection[n], sup[c].topics)
       IN  /\ connection' = [connection EXCEPT ![n] = r.conn]
           /\ run' = [run EXCEPT ![n] = IF r.err THEN @ ELSE "start"]
    /\ sup' = [sup EXCEPT ![c] = [NoSupervisor EXCEPT !.pc = "detached"]]
    /\ UNCHANGED <<conns, orphans, call, subscribed>>
    /\ UNCHANGED <<predVars, minerVars, auxVars>>

\* Pool.runConnection, one more iteration of its loop for a conn that was
\* replaced: conn.Run fails at once on the closed socket, reconnect dials
\* another connection, finds no slot holding conn, subscribes conn's topics on
\* the new connection and starts it. No state of the pool is touched; the new
\* connection is referenced by its goroutines only.
runConnectionDetached(c, dialOk) ==
    /\ sup[c].pc = "detached"
    /\ orphans' = IF dialOk /\ orphans < MaxOrphans THEN orphans + 1 ELSE orphans
    /\ UNCHANGED <<conns, connection, run, sup, call, subscribed>>
    /\ UNCHANGED <<predVars, minerVars, auxVars>>

\* The server has asked connection c to reconnect and its session still reads.
ReconnectRequested(c) ==
    /\ run[c] = "read"
    /\ connection[c].socket = "open"
    /\ ~connection[c].isConnected

\* Connection.handleResponse, case TypeReconnect, called by the readLoop of a
\* running session: isConnected is cleared and the readLoop reads on.
handleResponseReconnect(c) ==
    /\ run[c] = "read"
    /\ connection[c].socket = "open"
    /\ connection[c].isConnected
    /\ connection' = [connection EXCEPT ![c].isConnected = FALSE]
    /\ UNCHANGED <<conns, run, sup, orphans, call, subscribed>>
    /\ UNCHANGED <<predVars, minerVars, auxVars>>
(***************************************************************************)
(* Part IX: the minutes watched of a stream                                *)
(***************************************************************************)

\* The zero time.Time: of a streamer that was never online, or never offline,
\* and of a stream that has sent no minute-watched event yet.
NoTime == -1

\* A stream whose watch streak state is left as it is, for comparison with
\* InitWatchStreak.
keepWatchStreak(s) == s

\* Stream.InitWatchStreak.
InitWatchStreak(s) == [s EXCEPT !.minuteWatched = 0, !.minuteWatchedTimestamp = NoTime]

\* model.NewStream.
NewStream == InitWatchStreak([minuteWatched |-> 0, minuteWatchedTimestamp |-> NoTime])

\* Stream.UpdateMinuteWatched at time now.
UpdateMinuteWatched(s, now) ==
    [minuteWatched |-> IF s.minuteWatchedTimestamp # NoTime
                       THEN s.minuteWatched + (now - s.minuteWatchedTimestamp)
                       ELSE s.minuteWatched,
     minuteWatchedTimestamp |-> now]

\* Streamer.SetOnline on a streamer whose IsOnline is wasOnline.
SetOnline(s, wasOnline) == IF wasOnline THEN s ELSE InitWatchStreak(s)

StreakInit ==
    /\ stream = [ch \in Channels |-> NewStream]
    /\ sending = {}

(***************************************************************************)
(* Part III: the tracked-streamer set, startup and the category watcher    *)
(***************************************************************************)

\* Longest cfg.Streamers list and longest followers list drawn.
MaxConfigured == 2
MaxFollowers == 1
\* Number of streamers the category watcher adds in one run.
MaxPicks == 2

\* A login is a channel's name in some spelling: caps distinguishes the
\* lower-case spelling from one with capital letters.
Logins == [name : Channels, caps : BOOLEAN]
ToLower(login) == [login EXCEPT !.caps = FALSE]
EqualFold(a, b) == ToLower(a) = ToLower(b)
NoLogin == [name |-> 0, caps |-> FALSE]

\* twitch.Client.GetChannelID: Twitch maps a login to its channel id.
GetChannelID(login) == login.name

SeqsUpTo(S, n) == UNION {[1..k -> S] : k \in 0..n}

\* model.DefaultStreamerSettings overridden by cfg.StreamerDefaults: the
\* settings that decide the topics of a streamer.
StreamerSettings ==
    {[makePredictions |-> FALSE, followRaid |-> FALSE,
      claimMoments |-> FALSE, communityGoals |-> FALSE, chat |-> "ONLINE"],
     [makePredictions |-> TRUE, followRaid |-> TRUE,
      claimMoments |-> FALSE, communityGoals |-> FALSE, chat |-> "ALWAYS"],
     [makePredictions |-> FALSE, followRaid |-> FALSE,
      claimMoments |-> TRUE, communityGoals |-> TRUE, chat |-> "NEVER"]}

\* model.ShouldJoinChat.
ShouldJoinChat(presence, isOnline) ==
    CASE presence = "ALWAYS" -> TRUE
      [] presence = "ONLINE" -> isOnline
      [] presence = "OFFLINE" -> ~isOnline
      [] OTHER -> FALSE

\* GetTopStreamsByCategory returns logins as Twitch stores them, in lower case.
TopStreams == {login \in Logins : ~login.caps}

\* The configurations drawn at startup.
Configs ==
    [streamers : SeqsUpTo(Logins, MaxConfigured),
     followersEnabled : BOOLEAN,
     followers : SeqsUpTo(Logins, MaxFollowers),
     blacklist : {{}, {[name |-> 1, caps |-> FALSE]}},
     streamerDefaults : StreamerSettings,
     categoryWatcher : BOOLEAN]

\* The configurations under which the pool and its supervisors are explored:
\* at most one configured streamer, no followers.
PoolConfigs ==
    {c \in Configs : /\ Len(c.streamers) <= 1
                     /\ \A i \in 1..Len(c.streamers) : c.streamers[i] = [name |-> 1, caps |-> FALSE]
                     /\ ~c.followersEnabled
                     /\ c.followers = <<>>
                     /\ c.blacklist = {}}

\* The configurations under which the category watcher is explored together
\* with failing sockets: every optional topic is switched off, a streamer has
\* its video-playback topic only.
PlainConfigs ==
    {c \in PoolConfigs : /\ ~c.streamerDefaults.makePredictions
                         /\ ~c.streamerDefaults.claimMoments
                         /\ ~c.streamerDefaults.communityGoals}

NewStreamer(username, settings, isCategoryWatched) ==
    [username |-> username, channelID |-> GetChannelID(username),
     settings |-> settings, isCategoryWatched |-> isCategoryWatched]

\* Miner.streamerTopics.
streamerTopics(s) ==
    <<NewStreamerTopic(PubSubTopicVideoPlayback, s.channelID)>>
    \o (IF s.settings.followRaid
        THEN <<NewStreamerTopic(PubSubTopicRaid, s.channelID)>> ELSE <<>>)
    \o (IF s.settings.makePredictions
        THEN <<NewStreamerTopic(PubSubTopicPredictions, s.channelID)>> ELSE <<>>)
    \o (IF s.settings.claimMoments
        THEN <<NewStreamerTopic(PubSubTopicCommunityMoments, s.channelID)>> ELSE <<>>)
    \o (IF s.settings.communityGoals
        THEN <<NewStreamerTopic(PubSubTopicCommunityGoals, s.channelID)>> ELSE <<>>)

RECURSIVE AllStreamerTopics(_)
AllStreamerTopics(ss) ==
    IF ss = <<>> THEN <<>> ELSE streamerTopics(Head(ss)) \o AllStreamerTopics(Tail(ss))

MapToLower(logins) == [i \in 1..Len(logins) |-> ToLower(logins[i])]

\* resolveStreamers, the usernames to resolve: the configured logins,
\* lower-cased and without the blacklisted ones, then the followers that are
\* neither configured nor blacklisted.
ResolveUsernames(c, followersOk) ==
    LET configured == SelectSeq(MapToLower(c.streamers), LAMBDA u : u \notin c.blacklist)
        followers == SelectSeq(MapToLower(c.followers),
                               LAMBDA u : u \notin Range(configured) /\ u \notin c.blacklist)
    IN  IF c.followersEnabled /\ followersOk THEN configured \o followers ELSE configured

\* resolveStreamers, the result: the usernames whose channel id lookup
\* succeeded, in the order of the usernames.
Resolved(usernames, failed, settings) ==
    LET index == [i \in 1..Len(usernames) |-> i]
        kept == SelectSeq(index, LAMBDA i : i \notin failed)
    IN  [k \in 1..Len(kept) |-> NewStreamer(usernames[kept[k]], settings, FALSE)]

MinerInit ==
    /\ phase = "new"
    /\ cfg = [blacklist |-> {}, streamerDefaults |-> CHOOSE s \in StreamerSettings : TRUE,
              categoryWatcher |-> FALSE]
    /\ streamers = <<>>
    /\ categoryStreamers = NoLogin
    /\ cw = "idle"
    /\ picks = 0

\* Miner.Run up to and including resolveStreamers. failed: the positions whose
\* GetChannelID returned an error or an empty id.
resolveStreamers(c, followersOk, failed) ==
    /\ phase = "new"
    /\ LET resolved == Resolved(ResolveUsernames(c, followersOk), failed, c.streamerDefaults)
       IN  /\ streamers' = IF resolved = <<>> /\ ~c.categoryWatcher THEN streamers ELSE resolved
           /\ phase' = IF resolved = <<>> /\ ~c.categoryWatcher THEN "failed" ELSE "resolved"
    /\ cfg' = [blacklist |-> c.blacklist, streamerDefaults |-> c.streamerDefaults,
               categoryWatcher |-> c.categoryWatcher]
    /\ UNCHANGED <<categoryStreamers, cw, picks, poolVars>>
    /\ UNCHANGED <<predVars, auxVars>>

\* Miner.subscribeAllTopics: builds the topic list and calls Pool.Subscribe.
subscribeAllTopics ==
    /\ phase = "resolved"
    /\ LET makePred == \E i \in 1..Len(streamers) : streamers[i].settings.makePredictions
           topics == <<NewUserTopic(PubSubTopicCommunityPoints)>>
                     \o (IF makePred THEN <<NewUserTopic(PubSubTopicPredictionsUser)>>
                         ELSE <<>>)
                     \o AllStreamerTopics(streamers)
       IN  call' = [NoCall EXCEPT !.op = "sub", !.rest = topics]
    /\ phase' = "subscribing"
    /\ UNCHANGED <<cfg, streamers, categoryStreamers, cw, picks,
                   conns, connection, run, sup, orphans, subscribed>>
    /\ UNCHANGED <<predVars, auxVars>>

\* Miner.joinInitialChats: the chats joined at startup, when no streamer is
\* known to be online yet.
joinInitialChats ==
    {streamers[i].username : i \in {j \in 1..Len(streamers) :
                                      ShouldJoinChat(streamers[j].settings.chat, FALSE)}}

\* Miner.Run after subscribeAllTopics returned: an error ends Run, otherwise
\* the initial chats are joined and the goroutines (Pool.Run, the category
\* watcher, ...) are launched.
MinerRun ==
    /\ phase = "subscribing"
    /\ call.op = "ret"
    /\ phase' = IF call.err THEN "failed" ELSE "started"
    /\ channels' = IF call.err THEN channels ELSE joinInitialChats
    /\ call' = NoCall
    /\ UNCHANGED <<cfg, streamers, categoryStreamers, cw, picks,
                   conns, connection, run, sup, orphans, subscribed>>
    /\ UNCHANGED <<predVars, gqlVars, handler, catVars, pingVars, schedVars, lateVars>>

\* The Pool.Run goroutine reaches its critical section.
MinerPoolRun ==
    /\ phase = "started"
    /\ phase' = "running"
    /\ PoolRun
    /\ UNCHANGED <<cfg, streamers, categoryStreamers, cw, picks>>
    /\ UNCHANGED <<predVars, auxVars>>

CategoryWatcherRunning ==
    /\ phase \in {"started", "running"}
    /\ cfg.categoryWatcher

\* Miner.removeStreamerWithReason on the list: the first entry whose username
\* equals the argument case-insensitively.
RemovedIndex(username) ==
    LET hits == {i \in 1..Len(streamers) : EqualFold(streamers[i].username, username)}
    IN  IF hits = {} THEN 0 ELSE Least(hits)

\* The stream state of a channel's Streamer: not online, online with a game
\* matching the watched category (by id or by slug), online with another game.
StreamStates == {"offline", "category", "other"}

\* The reason with which CategoryWatcher.evaluate removes the pick of a
\* category that a regular streamer covers.
CoveredByRegular == "category_covered_by_regular"
\* The streamers left when removeStreamerWithReason has removed entry i.
WithoutEntry(i) == SubSeq(streamers, 1, i - 1) \o SubSeq(streamers, i + 1, Len(streamers))

\* Miner.removeStreamerWithReason(username, reason) called by the category
\* watcher from position pos, up to the call of Pool.UnsubscribeStreamer; when
\* no entry has the username it returns at once and the watcher goes on at
\* position next. The removed Streamer is released, so its stream state no
\* longer counts for its channel.
removeStreamerWithReason(username, reason, pos, next) ==
    LET i == RemovedIndex(username)
    IN  IF i = 0
        THEN /\ cw' = next
             /\ UNCHANGED <<streamers, call, live, removal>>
        ELSE /\ streamers' = WithoutEntry(i)
             /\ live' = [live EXCEPT ![streamers[i].channelID] = "offline"]
             /\ call' = [NoCall EXCEPT !.op = "collect",
                                       !.channel = streamers[i].channelID]
             /\ removal' = reason
             /\ cw' = pos

\* Where evaluate goes on after removing its pick: a category covered by a
\* regular streamer is left alone, otherwise the top streams are fetched.
AfterRemoval(reason) == IF reason = CoveredByRegular THEN "idle" ELSE "fetch"

\* CategoryWatcher.Run: the select takes a tick (or Run makes its first call)
\* and calls evaluate.
tick ==
    /\ CategoryWatcherRunning
    /\ cw = "idle"
    /\ cw' = "evaluate"
    /\ UNCHANGED <<phase, cfg, streamers, categoryStreamers, picks, poolVars>>
    /\ UNCHANGED <<predVars, auxVars>>

\* The results of checkStreamerValidity.
Validities == {"valid", "streamer_went_offline", "streamer_changed_category",
               "streamer_not_found"}

\* CategoryWatcher.evaluate for the one category, up to the fetch of the top
\* streams or the call of Pool.UnsubscribeStreamer. covered is the result of
\* isCategoryCovered, validity the result of checkStreamerValidity for the
\* current pick.
evaluateCategory(covered, validity) ==
    /\ IF ctxDone \/ (covered /\ categoryStreamers = NoLogin)
          \/ (~covered /\ categoryStreamers # NoLogin /\ validity = "valid")
       THEN /\ cw' = "idle"
            /\ UNCHANGED <<streamers, categoryStreamers, call, live, removal>>
       ELSE IF categoryStreamers = NoLogin
       THEN /\ cw' = "fetch"
            /\ UNCHANGED <<streamers, categoryStreamers, call, live, removal>>
       ELSE LET reason == IF covered THEN CoveredByRegular ELSE validity
            IN  /\ removeStreamerWithReason(categoryStreamers, reason, "remove",
                                            AfterRemoval(reason))
                /\ categoryStreamers' =
                      IF RemovedIndex(categoryStreamers) = 0 THEN NoLogin
                      ELSE categoryStreamers
    /\ UNCHANGED <<phase, cfg, picks, conns, connection, run, sup, orphans, subscribed>>
    /\ UNCHANGED <<predVars, gqlVars, chatVars, runVars, pingVars, schedVars, lateVars>>

\* evaluate, called by tick.
evaluate(covered, validity) ==
    /\ cw = "evaluate"
    /\ evaluateCategory(covered, validity)

\* CategoryWatcher.Run takes a tick and evaluate runs, in one step.
tickEvaluate(covered, validity) ==
    /\ CategoryWatcherRunning
    /\ cw = "idle"
    /\ evaluateCategory(covered, validity)

\* Pool.UnsubscribeStreamer returned to removeStreamerWithReason, which
\* leaves the chat of the removed streamer; then categoryStreamers[slug] = "".
evaluateRemoved ==
    /\ cw = "remove"
    /\ call.op = "ret"
    /\ channels' = channels \ {ToLower(categoryStreamers)}
    /\ categoryStreamers' = NoLogin
    /\ cw' = AfterRemoval(removal)
    /\ removal' = ""
    /\ call' = NoCall
    /\ UNCHANGED <<phase, cfg, streamers, picks, conns, connection, run, sup, orphans, subscribed>>
    /\ UNCHANGED <<predVars, gqlVars, handler, live, runVars, pingVars, schedVars, lateVars>>

\* CategoryWatcher.evaluate found no pick to add: GetTopStreamsByCategory
\* failed or returned no stream, or every top stream is tracked or blacklisted.
evaluateNoCandidate ==
    /\ cw = "fetch"
    /\ cw' = "idle"
    /\ UNCHANGED <<phase, cfg, streamers, categoryStreamers, picks, poolVars>>
    /\ UNCHANGED <<predVars, auxVars>>

\* CategoryWatcher.evaluate, the pick of a new streamer: the first top stream
\* whose channel id is not tracked and whose login is not blacklisted, created
\* online in the category, with Miner.addStreamer up to the call of
\* Pool.Subscribe.
evaluateAdd(candidate) ==
    /\ cw = "fetch"
    /\ picks < MaxPicks
    /\ \A i \in 1..Len(streamers) : streamers[i].channelID # GetChannelID(candidate)
    /\ ToLower(candidate) \notin cfg.blacklist
    /\ LET s == NewStreamer(candidate,
                            [cfg.streamerDefaults EXCEPT !.followRaid = FALSE], TRUE)
       IN  /\ streamers' = Append(streamers, s)
           /\ live' = [live EXCEPT ![s.channelID] = "category"]
           /\ call' = [NoCall EXCEPT !.op = "sub", !.rest = streamerTopics(s),
                                     !.channel = s.channelID]
           /\ stream' = [stream EXCEPT ![s.channelID] = NewStream]
           /\ sending' = sending \ {s.channelID}
    /\ categoryStreamers' = candidate
    /\ picks' = picks + 1
    /\ cw' = "add"
    /\ UNCHANGED <<phase, cfg, conns, connection, run, sup, orphans, subscribed>>
    /\ UNCHANGED <<predVars, gqlVars, chatVars, runVars, removal, pingVars, schedVars, laterVars>>

\* Pool.Subscribe returned to addStreamer; an error is only logged.
evaluateAdded ==
    /\ cw = "add"
    /\ call.op = "ret"
    /\ cw' = "idle"
    /\ call' = NoCall
    /\ UNCHANGED <<phase, cfg, streamers, categoryStreamers, picks,
                   conns, connection, run, sup, orphans, subscribed>>
    /\ UNCHANGED <<predVars, auxVars>>
(***************************************************************************)
(* Part IV: the GQL client's retry loop and circuit breaker                *)
(***************************************************************************)

\* Concurrent callers of doHTTPRequest.
NumRequests == 2
\* Time runs from 0 to MaxClock, in units of 30 s.
MaxClock == 2
\* failedRuns is counted up to this bound.
MaxFailedRuns == 11

\* recordFailure: the breaker opens at 10 consecutive failures.
BreakerThreshold == 10
\* recordFailure: the cooldown is capped at 5 minutes, 10 units of 30 s.
MaxCooldown == 10
\* constants.DefaultMaxRetries and constants.StartupMaxRetries.
DefaultMaxRetries == 3
StartupMaxRetries == 1

Requests == 1..NumRequests

Min(a, b) == IF a < b THEN a ELSE b

\* circuitBreaker.recordSuccess.
recordSuccess(cb) == [cb EXCEPT !.consecutiveFails = 0]

\* circuitBreaker.recordFailure at time now.
recordFailure(cb, now) ==
    LET fails == cb.consecutiveFails + 1
    IN  [consecutiveFails |-> fails,
         cooldownUntil |-> IF fails >= BreakerThreshold
                           THEN now + Min(fails - 9, MaxCooldown)
                           ELSE cb.cooldownUntil]

\* circuitBreaker.shouldSkip at time now.
shouldSkip(cb, now) == now < cb.cooldownUntil

\* doHTTPRequest when the last attempt (attempt = maxRetries) failed: the error
\* is returned from inside the loop and the breaker is left as it is.
lastAttemptFailedRecorded(cb, now) == recordFailure(cb, now)
lastAttemptFailed(cb, now) == cb

\* What an HTTP attempt can end with: status 200; a transport error, a read
\* error, status 429 or a status >= 500; any other status.
Outcomes == {"ok", "retryable", "status"}

NoRequest == [pc |-> "idle", attempt |-> 0, maxRetries |-> 0, result |-> "none"]

GqlInit ==
    /\ breaker = [consecutiveFails |-> 0, cooldownUntil |-> 0]
    /\ maxRetries = DefaultMaxRetries
    /\ clock = 0
    /\ req = [r \in Requests |-> NoRequest]
    /\ failedRuns = 0
    /\ lastFailedAt = 0

\* doHTTPRequest returns to its caller.
Return(r, result) == [req EXCEPT ![r] = [NoRequest EXCEPT !.result = result]]

\* doHTTPRequest up to its first attempt: the breaker check, getMaxRetries
\* and the loop condition. With maxRetries < 0 the loop body is skipped and
\* the statements after the loop run.
doHTTPRequest(r) ==
    /\ req[r].pc = "idle"
    /\ IF shouldSkip(breaker, clock)
       THEN /\ req' = Return(r, "circuit_open")
            /\ UNCHANGED breaker
       ELSE IF 0 <= maxRetries
       THEN /\ req' = [req EXCEPT ![r] = [pc |-> "attempt", attempt |-> 0,
                                          maxRetries |-> maxRetries, result |-> "none"]]
            /\ UNCHANGED breaker
       ELSE /\ req' = Return(r, "error")
            /\ breaker' = recordFailure(breaker, clock)
    /\ UNCHANGED <<maxRetries, clock, failedRuns, lastFailedAt>>
    /\ UNCHANGED notGqlVars

\* One iteration of the retry loop of doHTTPRequest: the request is sent and
\* ends with outcome. A retryable failure continues the loop while
\* attempt < maxRetries and returns the error on the last attempt.
httpAttempt(r, outcome) ==
    /\ req[r].pc = "attempt"
    /\ CASE outcome = "ok" ->
              /\ breaker' = recordSuccess(breaker)
              /\ req' = Return(r, "ok")
              /\ failedRuns' = 0
              /\ UNCHANGED lastFailedAt
         [] outcome = "status" ->
              /\ req' = Return(r, "error")
              /\ UNCHANGED <<breaker, failedRuns, lastFailedAt>>
         [] outcome = "retryable" /\ req[r].attempt < req[r].maxRetries ->
              /\ req' = [req EXCEPT ![r].attempt = @ + 1]
              /\ UNCHANGED <<breaker, failedRuns, lastFailedAt>>
         [] outcome = "retryable" /\ req[r].attempt >= req[r].maxRetries ->
              /\ failedRuns < MaxFailedRuns
              /\ req' = Return(r, "error")
              /\ failedRuns' = failedRuns + 1
              /\ lastFailedAt' = clock
              /\ breaker' = lastAttemptFailed(breaker, clock)
    /\ UNCHANGED <<maxRetries, clock>>
    /\ UNCHANGED notGqlVars

\* Client.SetStartupMode and Client.SetNormalMode.
SetStartupMode ==
    /\ maxRetries # StartupMaxRetries
    /\ maxRetries' = StartupMaxRetries
    /\ UNCHANGED <<breaker, clock, req, failedRuns, lastFailedAt>>
    /\ UNCHANGED <<predVars, poolVars, minerVars, chatVars, catVars, pingVars, schedVars, lateVars>>

SetNormalMode ==
    /\ maxRetries # DefaultMaxRetries
    /\ maxRetries' = DefaultMaxRetries
    /\ UNCHANGED <<breaker, clock, req, failedRuns, lastFailedAt>>
    /\ UNCHANGED <<predVars, poolVars, minerVars, chatVars, catVars, pingVars, schedVars, lateVars>>

\* 30 s pass.
Tick ==
    /\ clock < MaxClock
    /\ clock' = clock + 1
    /\ UNCHANGED <<breaker, maxRetries, req, failedRuns, lastFailedAt>>
    /\ UNCHANGED <<predVars, poolVars, minerVars, chatVars, catVars, pingVars, schedVars, lateVars>>

\* The HTTP status codes a response is drawn from.
StatusCodes == {200, 404, 429, 499, 500}

\* What c.httpClient.Do and io.ReadAll can give: an error of Do, a response
\* whose body cannot be read, or a response with its body.
Responses ==
    {[kind |-> "error", code |-> 0]}
    \cup {[kind |-> k, code |-> code] : k \in {"readError", "status"}, code \in StatusCodes}

NoResponse == [kind |-> "none", code |-> 0]

RetryInit ==
    /\ lastResponse = [r \in Requests |-> NoResponse]
    /\ waited = [r \in Requests |-> 0]

\* A loop that continues after every failure, for comparison with
\* attemptOutcome.
retryEveryFailure(response) ==
    IF response.kind = "status" /\ response.code = 200 THEN "ok" ELSE "retryable"

\* doHTTPRequest, the checks after c.httpClient.Do in their order.
attemptOutcome(response) ==
    IF response.kind = "error" THEN "retryable"
    ELSE IF response.kind = "readError" THEN "retryable"
    ELSE IF response.code = 429 \/ response.code >= 500 THEN "retryable"
    ELSE IF response.code # 200 THEN "status"
    ELSE "ok"

\* doHTTPRequest: math.Pow(2, attempt-1) seconds.
backoff(attempt) == 2 ^ (attempt - 1)

\* doHTTPRequest up to its first attempt, which is sent without a wait.
doHTTPRequestEnter(r) ==
    /\ doHTTPRequest(r)
    /\ lastResponse' = [lastResponse EXCEPT ![r] = NoResponse]
    /\ waited' = [waited EXCEPT ![r] = 0]

\* One iteration of the retry loop with the response of its attempt; when the
\* loop continues, the next iteration waits for its backoff before it sends.
doHTTPRequestAttempt(r, response) ==
    /\ httpAttempt(r, attemptOutcome(response))
    /\ lastResponse' = [lastResponse EXCEPT ![r] = response]
    /\ waited' = [waited EXCEPT
                    ![r] = IF req'[r].pc = "attempt" THEN backoff(req'[r].attempt) ELSE 0]
(***************************************************************************)
(* Part V: chat presence and the PubSub message handler                    *)
(***************************************************************************)

NoStreamer == [username |-> NoLogin, channelID |-> 0,
               settings |-> CHOOSE s \in StreamerSettings : TRUE,
               isCategoryWatched |-> FALSE]

ChatInit ==
    /\ channels = {}
    /\ handler = [pc |-> "idle", streamer |-> NoStreamer]

\* Miner.getStreamerByChannelID: the first tracked streamer with that id.
getStreamerByChannelID(channelID) ==
    LET hits == {i \in 1..Len(streamers) : streamers[i].channelID = channelID}
    IN  IF hits = {} THEN NoStreamer ELSE streamers[Least(hits)]

\* A pool connection whose session is reading has LISTENed the topic, so
\* Twitch can send a message of that topic.
Delivers(topic) ==
    \E i \in 1..Len(conns) :
        /\ run[conns[i]] = "read"
        /\ connection[conns[i]].socket = "open"
        /\ topic \in connection[conns[i]].listened

\* Miner.handleMessage for a video-playback message of type msgType
\* ("stream-up" or "stream-down"): the streamer is looked up; handleVideoPlayback
\* returns when there is none.
handleMessage(channelID, msgType) ==
    /\ handler.pc = "idle"
    /\ Delivers(NewStreamerTopic(PubSubTopicVideoPlayback, channelID))
    /\ LET streamer == getStreamerByChannelID(channelID)
       IN  /\ streamer # NoStreamer
           /\ handler' = [pc |-> msgType, streamer |-> streamer]
    /\ UNCHANGED channels
    /\ UNCHANGED <<predVars, poolVars, minerVars, gqlVars, catVars, pingVars, schedVars, lateVars>>

\* Miner.updateChatPresence.
updateChatPresence(streamer, isOnline) ==
    IF ShouldJoinChat(streamer.settings.chat, isOnline)
    THEN channels \cup {ToLower(streamer.username)}
    ELSE channels \ {ToLower(streamer.username)}

\* Miner.handleStreamUp with the streamer handleMessage looked up.
handleStreamUp ==
    /\ handler.pc = "stream-up"
    /\ channels' = updateChatPresence(handler.streamer, TRUE)
    /\ handler' = [pc |-> "idle", streamer |-> NoStreamer]
    /\ UNCHANGED <<predVars, poolVars, minerVars, gqlVars, catVars, pingVars, schedVars, lateVars>>

\* Miner.handleStreamDown with the streamer handleMessage looked up: SetOffline
\* on that Streamer (which shows in the tracked list only while the streamer
\* is still in it), then updateChatPresence.
handleStreamDown ==
    /\ handler.pc = "stream-down"
    /\ live' = IF handler.streamer \in Range(streamers)
               THEN [live EXCEPT ![handler.streamer.channelID] = "offline"]
               ELSE live
    /\ channels' = updateChatPresence(handler.streamer, FALSE)
    /\ handler' = [pc |-> "idle", streamer |-> NoStreamer]
    /\ UNCHANGED <<predVars, poolVars, minerVars, gqlVars, runVars, removal, pingVars, schedVars, lateVars>>

(***************************************************************************)
(* Part VI: stream state, cancellation and the category watcher's shutdown *)
(***************************************************************************)

CatInit ==
    /\ live = [ch \in Channels |-> "offline"]
    /\ ctxDone = FALSE
    /\ returned = FALSE
    /\ removal = ""

\* The always-false result, for comparison with isCategoryCovered.
neverCovered == FALSE

\* CategoryWatcher.isCategoryCovered over the tracked streamers: one that is
\* not category-watched is online with a game matching the category.
isCategoryCovered ==
    \E i \in 1..Len(streamers) :
        /\ ~streamers[i].isCategoryWatched
        /\ live[streamers[i].channelID] = "category"

\* CategoryWatcher.checkStreamerValidity: the first tracked streamer with
\* exactly this username decides.
checkStreamerValidity(username) ==
    LET hits == {i \in 1..Len(streamers) : streamers[i].username = username}
    IN  IF hits = {} THEN "streamer_not_found"
        ELSE CASE live[streamers[Least(hits)].channelID] = "offline" -> "streamer_went_offline"
               [] live[streamers[Least(hits)].channelID] = "other" -> "streamer_changed_category"
               [] OTHER -> "valid"

\* CategoryWatcher.evaluate reading the tracked streamers' state.
evaluateTracked == evaluate(isCategoryCovered, checkStreamerValidity(categoryStreamers))

\* twitch.Client.CheckStreamerOnline for the tracked streamer at position i,
\* called by the online monitor: info is what GetStreamInfo reports (no
\* stream, a stream in the watched category, a stream with another game); it
\* ends with SetOffline or SetOnline.
CheckStreamerOnline(i, info) ==
    /\ phase \in {"started", "running"}
    /\ i \in 1..Len(streamers)
    /\ live' = [live EXCEPT ![streamers[i].channelID] = info]
    /\ stream' = IF info = "offline" THEN stream
                 ELSE [stream EXCEPT ![streamers[i].channelID] =
                          SetOnline(@, live[streamers[i].channelID] # "offline")]
    /\ UNCHANGED <<runVars, removal, sending>>
    /\ UNCHANGED <<predVars, poolVars, minerVars, gqlVars, chatVars, pingVars, schedVars, laterVars>>

\* The context of Miner.Run is cancelled.
Cancel ==
    /\ ~ctxDone
    /\ ctxDone' = TRUE
    /\ UNCHANGED <<live, removal, returned>>
    /\ UNCHANGED <<predVars, poolVars, minerVars, gqlVars, chatVars, pingVars, schedVars, lateVars>>

\* The empty reason of Miner.removeStreamer, for comparison with ShutdownReason.
NoReason == ""

ShutdownReason == "category_watcher_shutdown"

\* CategoryWatcher.Run, the select takes ctx.Done(): the pick is removed with
\* Miner.removeStreamerWithReason (up to the call of Pool.UnsubscribeStreamer)
\* and Run returns.
RunShutdown ==
    /\ CategoryWatcherRunning
    /\ ctxDone
    /\ cw = "idle"
    /\ IF categoryStreamers = NoLogin
       THEN /\ cw' = "returned"
            /\ UNCHANGED <<streamers, categoryStreamers, call, live, removal>>
       ELSE /\ removeStreamerWithReason(categoryStreamers, ShutdownReason,
                                        "shutdown", "returned")
            /\ categoryStreamers' =
                  IF RemovedIndex(categoryStreamers) = 0 THEN NoLogin
                  ELSE categoryStreamers
    /\ UNCHANGED <<phase, cfg, picks, conns, connection, run, sup, orphans, subscribed>>
    /\ UNCHANGED <<predVars, gqlVars, chatVars, runVars, pingVars, schedVars, lateVars>>

\* Pool.UnsubscribeStreamer returned to removeStreamerWithReason, which
\* leaves the chat of the removed streamer; then categoryStreamers[slug] = ""
\* and Run returns.
RunShutdownRemoved ==
    /\ cw = "shutdown"
    /\ call.op = "ret"
    /\ channels' = channels \ {ToLower(categoryStreamers)}
    /\ categoryStreamers' = NoLogin
    /\ cw' = "returned"
    /\ removal' = ""
    /\ call' = NoCall
    /\ UNCHANGED <<phase, cfg, streamers, picks, conns, connection, run, sup, orphans, subscribed>>
    /\ UNCHANGED <<predVars, gqlVars, handler, live, runVars, pingVars, schedVars, lateVars>>

\* Miner.Run after g.Wait() returned: the context is cancelled and every
\* goroutine of the group has returned, the router between two messages and
\* the category watcher from Run. Every pending timer is stopped and deleted.
MinerRunReturn ==
    /\ ctxDone
    /\ ~returned
    /\ creating = 0
    /\ CategoryWatcherRunning => cw = "returned"
    /\ timer' = [t \in EvObjs |->
                   IF \E e \in EventIDs : pendingTimers[e] = t
                   THEN TimerStop(timer, t)[t] ELSE timer[t]]
    /\ pendingTimers' = [e \in EventIDs |-> 0]
    /\ returned' = TRUE
    /\ UNCHANGED <<eventsPredictions, events, nextEv, cbPrediction, creating,
                   gqlCalls, lastHandled>>
    /\ UNCHANGED <<poolVars, minerVars, gqlVars, chatVars, live, removal, ctxDone, pingVars, schedVars, lateVars>>

(***************************************************************************)
(* Part VII: the PubSub keepalive                                          *)
(***************************************************************************)

\* pingLoop gives up when the last PONG is more than 5 minutes old.
PongTimeout == 5

\* DefaultPubSubPingInterval, the period of pingLoop's ticker, in minutes.
PingInterval == 4

\* Positions of a connection's pingLoop goroutine: not running, waiting for
\* its ticker, returned after the "No PONG received" warning.
PingStates == {"stopped", "ticking", "timedOut"}

PingInit ==
    /\ pinging = [c \in ConnIds |-> "stopped"]
    /\ sincePong = [c \in ConnIds |-> 0]

\* Connection.pingLoop, one tick of its ticker.
pingLoop(c) ==
    /\ pinging[c] = "ticking"
    /\ IF ~connection[c].isConnected
       THEN /\ pinging' = [pinging EXCEPT ![c] = "stopped"]
            /\ UNCHANGED connection
       ELSE IF sincePong[c] > PongTimeout
       THEN /\ pinging' = [pinging EXCEPT ![c] = "timedOut"]
            /\ UNCHANGED connection
       ELSE /\ connection' = [connection EXCEPT ![c] = enqueuePing(@)]
            /\ UNCHANGED pinging
    /\ UNCHANGED <<conns, run, sup, orphans, call, subscribed, sincePong>>
    /\ UNCHANGED <<predVars, minerVars, gqlVars, chatVars, catVars, schedVars, lateVars>>

\* Connection.handleResponse for a PONG read by the readLoop.
handlePong(c) ==
    /\ run[c] = "read"
    /\ connection[c].socket = "open"
    /\ sincePong' = [sincePong EXCEPT ![c] = 0]
    /\ UNCHANGED pinging
    /\ UNCHANGED <<predVars, poolVars, minerVars, gqlVars, chatVars, catVars, schedVars, lateVars>>

\* One ping interval passes for the sessions that are reading. Time since
\* the last PONG is followed until it exceeds PongTimeout.
IntervalPasses ==
    /\ \E c \in ConnIds : run[c] = "read" /\ sincePong[c] <= PongTimeout
    /\ sincePong' = [c \in ConnIds |->
                       IF run[c] = "read" /\ sincePong[c] <= PongTimeout
                       THEN sincePong[c] + PingInterval ELSE sincePong[c]]
    /\ UNCHANGED pinging
    /\ UNCHANGED <<predVars, poolVars, minerVars, gqlVars, chatVars, catVars, schedVars, lateVars>>

(***************************************************************************)
(* Part VIII: the watch scheduler                                          *)
(***************************************************************************)

\* constants.MaxWatchStreams.
MaxWatchStreams == 2

\* Longest snapshot and longest priority list of the general inputs.
MaxSnapshot == 3
MaxPriorities == 2

\* The inputs of the watch-selection cap scenario: online streamers, and how
\* many of them have the drops condition.
ScenarioOnline == 10
ScenarioDrops == 5

Priorities ==
    {"ORDER", "STREAK", "DROPS", "SUBSCRIBED", "POINTS_ASCENDING", "POINTS_DESCENDING"}

\* A streamer as SelectStreamersToWatch reads it: sinceOnline is now - OnlineAt
\* in seconds and sinceOffline is now - OfflineAt in minutes, both rounded up;
\* watchStreak and claimDrops are false when Settings is nil; campaignIDs is
\* len(Stream.CampaignIDs); activeMultipliers holds the factors.
Plain ==
    [isOnline |-> TRUE, sinceOnline |-> 31, watchStreak |-> FALSE, missing |-> FALSE,
     sinceOffline |-> NoTime, minuteWatched |-> 0, claimDrops |-> FALSE,
     campaignIDs |-> 0, activeMultipliers |-> <<>>, channelPoints |-> 0]

\* A streamer that every rule would pick.
Wanted ==
    [Plain EXCEPT !.watchStreak = TRUE, !.missing = TRUE, !.claimDrops = TRUE,
                  !.campaignIDs = 1, !.activeMultipliers = <<2>>, !.channelPoints = 2]

\* A streamer with the drops condition and nothing else.
WithDrops == [Plain EXCEPT !.claimDrops = TRUE, !.campaignIDs = 1]

\* SetOnline and the category watcher are the only writers of IsOnline = true
\* and both set OnlineAt, so an online streamer has a sinceOnline.
StreamerKinds ==
    {[Plain EXCEPT !.isOnline = FALSE, !.sinceOnline = NoTime],
     [Wanted EXCEPT !.isOnline = FALSE, !.sinceOffline = 0],
     [Wanted EXCEPT !.sinceOnline = 10],
     [Wanted EXCEPT !.sinceOnline = 30],
     Plain,
     Wanted,
     [Plain EXCEPT !.watchStreak = TRUE, !.missing = TRUE],
     [Plain EXCEPT !.watchStreak = TRUE, !.missing = TRUE, !.sinceOffline = 31,
                   !.minuteWatched = 6],
     [Plain EXCEPT !.watchStreak = TRUE, !.missing = TRUE, !.sinceOffline = 30],
     [Plain EXCEPT !.watchStreak = TRUE, !.missing = TRUE, !.minuteWatched = 7],
     [Plain EXCEPT !.watchStreak = TRUE],
     WithDrops,
     [Plain EXCEPT !.claimDrops = TRUE],
     [Plain EXCEPT !.activeMultipliers = <<1>>],
     [Plain EXCEPT !.activeMultipliers = <<1, 1>>],
     [Plain EXCEPT !.channelPoints = 1]}

\* Ten online streamers, five of them with the drops condition, none with a
\* missing streak.
ScenarioSnapshots ==
    {[i \in 1..ScenarioOnline |-> IF i \in D THEN WithDrops ELSE Plain] :
        D \in {E \in SUBSET (1..ScenarioOnline) : Cardinality(E) = ScenarioDrops}}

SchedIdle ==
    /\ snapshot = <<>>
    /\ priorities = <<>>
    /\ toWatch = {}
    /\ ticked = FALSE

\* A tick's inputs: any short snapshot with any short priority list, or the
\* scenario.
SchedInputs ==
    /\ \/ /\ snapshot \in SeqsUpTo(StreamerKinds, MaxSnapshot)
          /\ priorities \in SeqsUpTo(Priorities, MaxPriorities)
       \/ /\ snapshot \in ScenarioSnapshots
          /\ priorities = <<"STREAK", "DROPS", "ORDER">>
    /\ toWatch = {}
    /\ ticked = FALSE

\* A selection that takes every online streamer, for comparison with Eligible.
onlineNow(s) == s.isOnline

\* SelectStreamersToWatch: the condition for onlineIndices.
Eligible(s) == s.isOnline /\ (s.sinceOnline = NoTime \/ s.sinceOnline > 30)

onlineIndices(list) ==
    SelectSeq([i \in 1..Len(list) |-> i], LAMBDA i : Eligible(list[i]))

\* SelectStreamersToWatch, case PriorityStreak: the condition of the rule.
StreakCondition(s) ==
    /\ s.watchStreak
    /\ s.missing
    /\ (s.sinceOffline = NoTime \/ s.sinceOffline > 30)
    /\ s.minuteWatched < 7

\* A rule that takes every streamer, for comparison with DropsCondition.
noCondition(s) == TRUE

\* Streamer.DropsCondition.
DropsCondition(s) == s.claimDrops /\ s.isOnline /\ s.campaignIDs > 0

\* Streamer.HasPointsMultiplier.
HasPointsMultiplier(s) == Len(s.activeMultipliers) > 0

RECURSIVE SumFactors(_)
SumFactors(factors) ==
    IF factors = <<>> THEN 0 ELSE Head(factors) + SumFactors(Tail(factors))

\* Streamer.TotalPointsMultiplier.
TotalPointsMultiplier(s) == SumFactors(s.activeMultipliers)

\* The loop shared by the rules: walk the indices in order, skip what is
\* watched already or does not qualify, add the others, and break when
\* remaining reaches 0.
RECURSIVE fill(_, _, _, _)
fill(order, qualifying, watching, remaining) ==
    IF order = <<>> THEN watching
    ELSE LET idx == Head(order)
         IN  IF idx \in watching \/ idx \notin qualifying
             THEN fill(Tail(order), qualifying, watching, remaining)
             ELSE IF remaining - 1 <= 0
             THEN watching \cup {idx}
             ELSE fill(Tail(order), qualifying, watching \cup {idx}, remaining - 1)

\* The less function handed to sort.Slice.
less(key, descending, a, b) == IF descending THEN key[a] > key[b] ELSE key[a] < key[b]

RECURSIVE insertSorted(_, _, _, _)
insertSorted(sorted, x, key, descending) ==
    IF sorted = <<>> THEN <<x>>
    ELSE IF less(key, descending, x, Head(sorted)) THEN <<x>> \o sorted
    ELSE <<Head(sorted)>> \o insertSorted(Tail(sorted), x, key, descending)

\* sort.Slice on at most 12 items, which is an insertion sort.
RECURSIVE sortSlice(_, _, _)
sortSlice(items, key, descending) ==
    IF items = <<>> THEN <<>>
    ELSE insertSorted(sortSlice(SubSeq(items, 1, Len(items) - 1), key, descending),
                      items[Len(items)], key, descending)

\* SelectStreamersToWatch: one case of the switch.
applyPriority(priority, list, online, watching, maxWatch) ==
    LET remaining == maxWatch - Cardinality(watching)
        all == Range(online)
    IN  CASE priority = "ORDER" -> fill(online, all, watching, remaining)
          [] priority = "STREAK" ->
                fill(online, {i \in all : StreakCondition(list[i])}, watching, remaining)
          [] priority = "DROPS" ->
                fill(online, {i \in all : DropsCondition(list[i])}, watching, remaining)
          [] priority = "SUBSCRIBED" ->
                LET withMultiplier ==
                        SelectSeq(online, LAMBDA i : i \notin watching
                                                     /\ HasPointsMultiplier(list[i]))
                    multiplier == [i \in all |-> TotalPointsMultiplier(list[i])]
                IN  fill(sortSlice(withMultiplier, multiplier, TRUE), all, watching, remaining)
          [] priority \in {"POINTS_ASCENDING", "POINTS_DESCENDING"} ->
                LET points == [i \in all |-> list[i].channelPoints]
                IN  fill(sortSlice(online, points, priority = "POINTS_DESCENDING"),
                         all, watching, remaining)
          [] OTHER -> watching

\* SelectStreamersToWatch: the loop over the priorities.
RECURSIVE selectLoop(_, _, _, _, _)
selectLoop(rules, list, online, watching, maxWatch) ==
    IF rules = <<>> \/ Cardinality(watching) >= maxWatch THEN watching
    ELSE selectLoop(Tail(rules), list, online,
                    applyPriority(Head(rules), list, online, watching, maxWatch),
                    maxWatch)

\* SelectStreamersToWatch: the results it can return, as sets of indices. The
\* result is collected by ranging over a map and cut to maxWatch entries.
SelectStreamersToWatch(list, rules, maxWatch) ==
    LET limit == IF maxWatch <= 0 THEN MaxWatchStreams ELSE maxWatch
        online == onlineIndices(list)
        watching == IF online = <<>> THEN {}
                    ELSE selectLoop(rules, list, online, {}, limit)
    IN  IF Cardinality(watching) > limit
        THEN {w \in SUBSET watching : Cardinality(w) = limit}
        ELSE {watching}

\* Miner.runMinuteWatcher, the ticker case.
runMinuteWatcher ==
    /\ toWatch' \in SelectStreamersToWatch(snapshot, priorities, MaxWatchStreams)
    /\ ticked' = TRUE
    /\ UNCHANGED <<snapshot, priorities>>
    /\ UNCHANGED <<predVars, poolVars, minerVars, gqlVars, chatVars, catVars, pingVars, lateVars>>

(***************************************************************************)
(* Part IX, continued: the minute-watched events                           *)
(***************************************************************************)

\* Client.SendMinuteWatchedEvents starts the requests for the tracked streamer
\* at position i, which the tick selected while it was online.
SendMinuteWatchedEvents(i) ==
    /\ phase \in {"started", "running"}
    /\ i \in 1..Len(streamers)
    /\ live[streamers[i].channelID] # "offline"
    /\ streamers[i].channelID \notin sending
    /\ sending' = sending \cup {streamers[i].channelID}
    /\ UNCHANGED stream
    /\ UNCHANGED <<predVars, poolVars, minerVars, gqlVars, chatVars, catVars, pingVars, schedVars, laterVars>>

\* The spade request of channel ch is answered: with 200 or 204 the stream's
\* minutes are updated, with anything else they are not.
minuteWatchedSent(ch, ok) ==
    /\ ch \in sending
    /\ sending' = sending \ {ch}
    /\ stream' = IF ok THEN [stream EXCEPT ![ch] = UpdateMinuteWatched(@, clock)] ELSE stream
    /\ UNCHANGED <<predVars, poolVars, minerVars, gqlVars, chatVars, catVars, pingVars, schedVars, laterVars>>

(***************************************************************************)
(* Part XI: the lock of the streamer list                                  *)
(***************************************************************************)

UpdatePositions == {"idle", "info", "locked", "campaigns"}

NoLookup == [pc |-> "idle", channelID |-> 0, index |-> 0]

LockInit ==
    /\ streamersMu = {}
    /\ mu = [ch \in Channels |-> "free"]
    /\ lookup = NoLookup
    /\ updating = [ch \in Channels |-> "idle"]

\* Miner.getStreamerByChannelID: m.streamersMu.RLock(). The handler of a
\* message of channel channelID starts the lookup.
getStreamerByChannelIDRLock(channelID) ==
    /\ phase \in {"started", "running"}
    /\ lookup.pc = "idle"
    /\ streamersMu' = streamersMu \cup {"handler"}
    /\ lookup' = [pc |-> "scan", channelID |-> channelID, index |-> 1]
    /\ UNCHANGED <<mu, updating>>
    /\ UNCHANGED notLockVars

\* Miner.getStreamerByChannelID: one iteration of the loop, which takes
\* s.Mu.RLock() to read the channel id, or the return after the loop; the
\* deferred RUnlock releases the list.
getStreamerByChannelIDNext ==
    /\ lookup.pc = "scan"
    /\ IF lookup.index > Len(streamers)
       THEN /\ lookup' = NoLookup
            /\ streamersMu' = streamersMu \ {"handler"}
       ELSE /\ mu[streamers[lookup.index].channelID] = "free"
            /\ IF streamers[lookup.index].channelID = lookup.channelID
               THEN /\ lookup' = NoLookup
                    /\ streamersMu' = streamersMu \ {"handler"}
               ELSE /\ lookup' = [lookup EXCEPT !.index = @ + 1]
                    /\ UNCHANGED streamersMu
    /\ UNCHANGED <<mu, updating>>
    /\ UNCHANGED notLockVars

\* Client.updateStream for the tracked streamer at position i, up to the
\* request c.GQL.GetStreamInfo, which it sends with no lock held.
updateStreamInfo(i) ==
    /\ phase \in {"started", "running"}
    /\ i \in 1..Len(streamers)
    /\ updating[streamers[i].channelID] = "idle"
    /\ updating' = [updating EXCEPT ![streamers[i].channelID] = "info"]
    /\ UNCHANGED <<streamersMu, mu, lookup>>
    /\ UNCHANGED notLockVars

\* Client.updateStream: GetStreamInfo has returned. With an error or no info
\* the call returns; otherwise it takes streamer.Mu.Lock() with a deferred
\* Unlock.
updateStreamLock(ch, hasInfo) ==
    /\ updating[ch] = "info"
    /\ IF hasInfo
       THEN /\ mu[ch] = "free"
            /\ mu' = [mu EXCEPT ![ch] = "updateStream"]
            /\ updating' = [updating EXCEPT ![ch] = "locked"]
       ELSE /\ updating' = [updating EXCEPT ![ch] = "idle"]
            /\ UNCHANGED mu
    /\ UNCHANGED <<streamersMu, lookup>>
    /\ UNCHANGED notLockVars

\* Client.updateStream under streamer.Mu: Stream.Update and the payload.
\* wantsCampaigns: the game is known and Settings.ClaimDrops is set, so that
\* c.GQL.GetAvailableCampaigns is requested, with streamer.Mu still held.
updateStreamPayload(ch, wantsCampaigns) ==
    /\ updating[ch] = "locked"
    /\ IF wantsCampaigns
       THEN /\ updating' = [updating EXCEPT ![ch] = "campaigns"]
            /\ UNCHANGED mu
       ELSE /\ updating' = [updating EXCEPT ![ch] = "idle"]
            /\ mu' = [mu EXCEPT ![ch] = "free"]
    /\ UNCHANGED <<streamersMu, lookup>>
    /\ UNCHANGED notLockVars

\* Client.updateStream: GetAvailableCampaigns has returned; the call returns
\* and the deferred Unlock releases streamer.Mu.
updateStreamReturn(ch) ==
    /\ updating[ch] = "campaigns"
    /\ updating' = [updating EXCEPT ![ch] = "idle"]
    /\ mu' = [mu EXCEPT ![ch] = "free"]
    /\ UNCHANGED <<streamersMu, lookup>>
    /\ UNCHANGED notLockVars

(***************************************************************************)
(* Part XII: the way of a message from a connection to the handler         *)
(***************************************************************************)

\* Capacity of Connection.messages and of Pool.merged, and the number of
\* messages a connection's reader publishes.
MessagesCap == 2
MergedCap == 2
MaxPublished == 2

\* Message.Identifier with its Timestamp.
Identifiers == {"a", "b"}

NoIdentifier == ""
NoMsg == [conn |-> NoConn, n |-> 0]

FlowInit ==
    /\ messages = [c \in ConnIds |-> <<>>]
    /\ lastMsgIdentifier = [c \in ConnIds |-> NoIdentifier]
    /\ published = [c \in ConnIds |-> 0]
    /\ forwarding = [c \in ConnIds |-> NoMsg]
    /\ poolMerged = <<>>
    /\ handled = <<>>

\* A send on a channel that puts the value in front of the buffered ones, for
\* comparison with send.
sendInFront(ch, msg) == <<msg>> \o ch

\* A send on a buffered channel.
send(ch, msg) == Append(ch, msg)

\* Pool.startForwarder has been called for the connection: by Pool.Run, next
\* to its supervisor, or by reconnect when it put the connection in a slot.
forwarderStarted(c) ==
    \/ sup[c].pc # "none"
    \/ \E old \in 1..MaxPubSubConns :
          /\ c = Replacement(old)
          /\ \/ sup[old].pc = "resub"
             \/ sup[old].pc = "detached"

\* Connection.handleMessage, called by the readLoop of the running connection
\* for a MESSAGE frame: a message equal to the last one is dropped, any other
\* is published on c.messages, as the n-th of this connection.
connectionHandleMessage(c, identifier) ==
    /\ run[c] = "read"
    /\ connection[c].socket = "open"
    /\ published[c] < MaxPublished
    /\ IF lastMsgIdentifier[c] = identifier
       THEN UNCHANGED <<messages, lastMsgIdentifier, published>>
       ELSE /\ Len(messages[c]) < MessagesCap
            /\ lastMsgIdentifier' = [lastMsgIdentifier EXCEPT ![c] = identifier]
            /\ published' = [published EXCEPT ![c] = @ + 1]
            /\ messages' = [messages EXCEPT
                              ![c] = send(@, [conn |-> c, n |-> published[c] + 1])]
    /\ UNCHANGED <<forwarding, poolMerged, handled>>
    /\ UNCHANGED notFlowVars

\* The forwarder goroutine of a connection: `msg, ok := <-conn.Messages()`.
startForwarderReceive(c) ==
    /\ forwarderStarted(c)
    /\ forwarding[c] = NoMsg
    /\ messages[c] # <<>>
    /\ forwarding' = [forwarding EXCEPT ![c] = Head(messages[c])]
    /\ messages' = [messages EXCEPT ![c] = Tail(@)]
    /\ UNCHANGED <<lastMsgIdentifier, published, poolMerged, handled>>
    /\ UNCHANGED notFlowVars

\* The forwarder goroutine of a connection: `p.poolMerged <- msg`.
startForwarderSend(c) ==
    /\ forwarding[c] # NoMsg
    /\ Len(poolMerged) < MergedCap
    /\ poolMerged' = send(poolMerged, forwarding[c])
    /\ forwarding' = [forwarding EXCEPT ![c] = NoMsg]
    /\ UNCHANGED <<messages, lastMsgIdentifier, published, handled>>
    /\ UNCHANGED notFlowVars

\* Pool.routeMessages, one iteration: the handler is invoked for the next
\* message of the merged channel.
routeMessages ==
    /\ phase = "running"
    /\ poolMerged # <<>>
    /\ handled' = Append(handled, Head(poolMerged))
    /\ poolMerged' = Tail(poolMerged)
    /\ UNCHANGED <<messages, lastMsgIdentifier, published, forwarding>>
    /\ UNCHANGED notFlowVars

\* The forwarder goroutines that run: a forwarder returns when its
\* connection's channel is closed (Connection.Close, called by Pool.Close
\* only) or the context is done, so every forwarder started is running, those
\* of the connections that reconnect dialed for a replaced connection included.
runningForwarders == Cardinality({c \in ConnIds : forwarderStarted(c)}) + orphans

(***************************************************************************)
(* Part XIII: the heartbeat loop of the minute watcher                     *)
(***************************************************************************)

\* The ticks of the minute watcher are counted up to this bound.
MaxTicks == 2

\* The result of a heartbeat in which no step failed.
NoFailure == "none"

\* The answers a heartbeat can get, step by step.
SpadeStatuses == {200, 204, 500}

HeartbeatRuns ==
    [spadeURL : BOOLEAN, payload : BOOLEAN, token : BOOLEAN, manifest : BOOLEAN,
     streamList : BOOLEAN, head : BOOLEAN, spadeStatus : SpadeStatuses]

\* What runMinuteWatcher can pass to SendMinuteWatchedEvents: up to
\* MaxWatchStreams different streamers.
Selections ==
    {s \in SeqsUpTo(Channels, MaxWatchStreams) :
        \A a, b \in 1..Len(s) : s[a] = s[b] => a = b}

HeartbeatInit ==
    heartbeat = [pc |-> "wait", toWatch |-> <<>>, errs |-> <<>>, failed |-> <<>>,
                 ticks |-> 0]

\* Some step of the heartbeat with the answers h fails: the streamer has no
\* spade URL or no payload, a request fails or is answered with another status
\* than 200, or the spade request is answered with neither 200 nor 204.
StepFailed(h) ==
    ~(/\ h.spadeURL /\ h.payload /\ h.token /\ h.manifest /\ h.streamList /\ h.head
      /\ h.spadeStatus \in {200, 204})

\* A heartbeat that looks at the answer of the spade request only.
spadeStatusOnly(h) ==
    IF h.spadeStatus \in {200, 204} THEN NoFailure ELSE "spade"

\* Client.sendMinuteWatchedForStreamer: the step at which it returns an
\* error, NoFailure when it reaches UpdateMinuteWatched.
sendMinuteWatchedForStreamer(h) ==
    IF ~h.spadeURL THEN "spadeURL"
    ELSE IF ~h.payload THEN "payload"
    ELSE IF ~h.token THEN "token"
    ELSE IF ~h.manifest THEN "manifest"
    ELSE IF ~h.streamList THEN "streamList"
    ELSE IF ~h.head THEN "head"
    ELSE IF h.spadeStatus \notin {200, 204} THEN "spade"
    ELSE NoFailure

\* Miner.runMinuteWatcher, the select takes ticker.C: the selection of the
\* tick is handed to SendMinuteWatchedEvents, unless it is empty.
minuteWatcherTick(selected) ==
    /\ heartbeat.pc = "wait"
    /\ heartbeat.ticks < MaxTicks
    /\ heartbeat' = IF selected = <<>>
                    THEN [heartbeat EXCEPT !.toWatch = <<>>, !.errs = <<>>,
                                           !.failed = <<>>, !.ticks = @ + 1]
                    ELSE [heartbeat EXCEPT !.pc = "send", !.toWatch = selected,
                                           !.errs = <<>>, !.failed = <<>>]
    /\ UNCHANGED <<predVars, poolVars, minerVars, gqlVars, chatVars, catVars, pingVars,
                   schedVars, streakVars, betVars, lockVars, flowVars, retryVars, mutexVars, taskVars>>

\* Miner.runMinuteWatcher, the select takes ctx.Done().
minuteWatcherDone ==
    /\ heartbeat.pc = "wait"
    /\ ctxDone
    /\ heartbeat' = [heartbeat EXCEPT !.pc = "returned"]
    /\ UNCHANGED <<predVars, poolVars, minerVars, gqlVars, chatVars, catVars, pingVars,
                   schedVars, streakVars, betVars, lockVars, flowVars, retryVars, mutexVars, taskVars>>

\* Client.SendMinuteWatchedEvents, one iteration of its loop, and what
\* runMinuteWatcher does when the loop ends: with the context cancelled the
\* loop returns the error and runMinuteWatcher returns; otherwise the
\* heartbeat of the next streamer is run, its error is only logged, and after
\* the last streamer runMinuteWatcher waits for the next tick.
SendMinuteWatchedIteration(h) ==
    /\ heartbeat.pc = "send"
    /\ LET i == Len(heartbeat.errs) + 1
           ch == heartbeat.toWatch[i]
           err == sendMinuteWatchedForStreamer(h)
       IN IF ctxDone
          THEN /\ heartbeat' = [heartbeat EXCEPT !.pc = "returned"]
               /\ UNCHANGED stream
          ELSE /\ stream' = IF err = NoFailure
                            THEN [stream EXCEPT ![ch] = UpdateMinuteWatched(@, clock)]
                            ELSE stream
               /\ heartbeat' =
                     IF i = Len(heartbeat.toWatch)
                     THEN [heartbeat EXCEPT !.pc = "wait", !.errs = Append(@, err),
                                            !.failed = Append(@, StepFailed(h)),
                                            !.ticks = @ + 1]
                     ELSE [heartbeat EXCEPT !.errs = Append(@, err),
                                            !.failed = Append(@, StepFailed(h))]
    /\ UNCHANGED sending
    /\ UNCHANGED <<predVars, poolVars, minerVars, gqlVars, chatVars, catVars, pingVars,
                   schedVars, betVars, lockVars, flowVars, retryVars, mutexVars, taskVars>>

(***************************************************************************)
(* Part XIV: the locks and the goroutines that take them                   *)
(***************************************************************************)

\* The goroutines: Pool.routeMessages with the handlers it calls, the
\* callback of a bet timer, CategoryWatcher.Run, Miner.runMinuteWatcher, and
\* Pool.runConnection with Pool.healthMonitor.
Goroutines == {"router", "timer", "watcher", "scheduler", "supervisor"}

NoGoroutine == "none"

streamersMuLock == <<"streamersMu", 0>>
StreamerMu(ch) == <<"Mu", ch>>
poolMu == <<"Pool.mu", 0>>
connMu == <<"Connection.mu", 0>>
cwMu == <<"CategoryWatcher.mu", 0>>
eventsPredictionsMu == <<"eventsPredictionsMu", 0>>
pendingTimersMu == <<"pendingTimersMu", 0>>

Mutexes ==
    {streamersMuLock, poolMu, connMu, cwMu, eventsPredictionsMu, pendingTimersMu}
        \cup {StreamerMu(ch) : ch \in Channels}

\* The steps of a routine: Lock and Unlock, RLock and RUnlock of a lock, and
\* a network request.
Lock(l) == <<"Lock", l>>
Unlock(l) == <<"Unlock", l>>
RLock(l) == <<"RLock", l>>
RUnlock(l) == <<"RUnlock", l>>
Request == <<"request", <<"", 0>>>>

\* Miner.getStreamers.
getStreamers == <<RLock(streamersMuLock), RUnlock(streamersMuLock)>>

\* The streamers at positions 1..n of the list are read one after the other,
\* each under its own s.Mu.RLock().
RECURSIVE readEach(_)
readEach(n) ==
    IF n = 0 THEN <<>>
    ELSE readEach(n - 1) \o <<RLock(StreamerMu(n)), RUnlock(StreamerMu(n))>>

\* Miner.getStreamerByChannelID for the streamer at position ch of the list.
getStreamerByChannelIDLocks(ch) ==
    <<RLock(streamersMuLock)>> \o readEach(ch) \o <<RUnlock(streamersMuLock)>>

\* Miner.handleMessage for a prediction-result message of channel ch: the
\* lookup, handlePredictionsUser and handlePredictionResult.
handlePredictionResultLocks(ch) ==
    getStreamerByChannelIDLocks(ch)
        \o <<RLock(eventsPredictionsMu), RUnlock(eventsPredictionsMu),
             Lock(pendingTimersMu), Unlock(pendingTimersMu),
             RLock(StreamerMu(ch)), RUnlock(StreamerMu(ch)),
             Lock(StreamerMu(ch)), Unlock(StreamerMu(ch)),
             Lock(eventsPredictionsMu), Unlock(eventsPredictionsMu)>>

\* The callback of the bet timer of an event of channel ch, up to the request
\* of Client.MakePrediction.
betTimerCallback(ch) ==
    <<Lock(pendingTimersMu), Unlock(pendingTimersMu),
      RLock(eventsPredictionsMu), RUnlock(eventsPredictionsMu),
      RLock(StreamerMu(ch)), RUnlock(StreamerMu(ch))>>

\* Pool.UnsubscribeStreamer: the topics are collected under p.mu with
\* Connection.Topics, then Pool.Unsubscribe calls Connection.Unsubscribe
\* under p.mu.
UnsubscribeStreamer ==
    <<Lock(poolMu), Lock(connMu), Unlock(connMu), Unlock(poolMu),
      Lock(poolMu), Lock(connMu), Unlock(connMu), Unlock(poolMu)>>

\* Miner.removeStreamerWithReason for the streamer of channel ch.
removeStreamerWithReasonLocks(ch) ==
    <<Lock(streamersMuLock), Unlock(streamersMuLock)>>
        \o UnsubscribeStreamer
        \o <<RLock(StreamerMu(ch)), RUnlock(StreamerMu(ch))>>

\* Miner.addStreamer for the streamer of channel ch: the append,
\* streamerTopics, and Pool.Subscribe with its dial and Connection.Subscribe
\* under p.mu.
addStreamer(ch) ==
    <<Lock(streamersMuLock), Unlock(streamersMuLock),
      RLock(StreamerMu(ch)), RUnlock(StreamerMu(ch)),
      Lock(poolMu), Request, Lock(connMu), Unlock(connMu), Unlock(poolMu)>>

\* CategoryWatcher.evaluate when the category is covered by a regular
\* streamer: the pick of channel ch is removed under cw.mu.
evaluateCovered(ch) ==
    getStreamers \o readEach(NumChannels)
        \o <<Lock(cwMu)>> \o removeStreamerWithReasonLocks(ch) \o <<Unlock(cwMu)>>

\* CategoryWatcher.evaluate when the category has no pick: after the request
\* for the top streams the tracked streamers are read and the streamer of
\* channel ch is added.
evaluateAddLocks(ch) ==
    getStreamers \o readEach(NumChannels)
        \o <<Lock(cwMu), Unlock(cwMu)>>
        \o readEach(NumChannels)
        \o addStreamer(ch)
        \o <<Lock(cwMu), Unlock(cwMu)>>

\* CategoryWatcher.Run, the ctx.Done() case: the pick of channel ch is
\* removed under cw.mu.
watcherShutdown(ch) ==
    <<Lock(cwMu)>> \o removeStreamerWithReasonLocks(ch) \o <<Unlock(cwMu)>>

\* A tick that takes the list of streamers while it holds the lock of the
\* streamer of channel ch.
listUnderStreamerLock(ch) ==
    <<Lock(StreamerMu(ch)), RLock(streamersMuLock), RUnlock(streamersMuLock),
      Unlock(StreamerMu(ch))>>

\* Miner.runMinuteWatcher, one tick that selects the streamer of channel ch:
\* getStreamers, SelectStreamersToWatch, logWatchingChanges, and
\* sendMinuteWatchedForStreamer with logDropProgress.
minuteWatcherRoutine(ch) ==
    getStreamers \o readEach(NumChannels)
        \o <<RLock(StreamerMu(ch)), RUnlock(StreamerMu(ch)),
             RLock(StreamerMu(ch)), RUnlock(StreamerMu(ch)),
             Lock(StreamerMu(ch)), Unlock(StreamerMu(ch)),
             RLock(StreamerMu(ch)), RUnlock(StreamerMu(ch))>>

\* Pool.reconnect: Connection.Topics of the old connection, after the dial
\* the swap under p.mu, and Connection.Subscribe.
reconnectRoutine ==
    <<Lock(connMu), Unlock(connMu), Lock(poolMu), Unlock(poolMu),
      Lock(connMu), Unlock(connMu)>>

\* Pool.healthMonitor, one tick: IsConnected under p.mu.
healthMonitorRoutine ==
    <<Lock(poolMu), Lock(connMu), Unlock(connMu), Unlock(poolMu)>>

\* The routines a goroutine can run.
Routines(g) ==
    CASE g = "router" -> {handlePredictionResultLocks(NumChannels)}
      [] g = "timer" -> {betTimerCallback(NumChannels)}
      [] g = "watcher" -> {evaluateCovered(NumChannels), evaluateAddLocks(NumChannels),
                           watcherShutdown(NumChannels)}
      [] g = "scheduler" -> {minuteWatcherRoutine(NumChannels)}
      [] g = "supervisor" -> {reconnectRoutine, healthMonitorRoutine}

MutexInit ==
    /\ lockHolders = [l \in Mutexes |-> [writer |-> NoGoroutine, readers |-> {}]]
    /\ routine = [g \in Goroutines |-> <<>>]

\* The step goroutine g is at.
NextStep(g) == Head(routine[g])

\* sync.RWMutex and sync.Mutex: RLock waits while a writer holds the lock or
\* waits for it; Lock first excludes the other writers and the new readers,
\* then waits until the readers have left.
CanStep(g) ==
    /\ routine[g] # <<>>
    /\ LET kind == NextStep(g)[1]
           l == NextStep(g)[2]
       IN CASE kind = "RLock" -> lockHolders[l].writer = NoGoroutine
            [] kind = "Lock" -> \/ lockHolders[l].writer = NoGoroutine
                                \/ lockHolders[l].writer = g /\ lockHolders[l].readers = {}
            [] OTHER -> TRUE

\* Goroutine g starts one of its routines.
StartRoutine(g, r) ==
    /\ routine[g] = <<>>
    /\ r \in Routines(g)
    /\ routine' = [routine EXCEPT ![g] = r]
    /\ UNCHANGED lockHolders
    /\ UNCHANGED <<predVars, poolVars, minerVars, gqlVars, chatVars, catVars, pingVars,
                   schedVars, streakVars, betVars, lockVars, flowVars, retryVars,
                   heartbeatVars, taskVars>>

\* Goroutine g takes the next step of its routine.
RoutineStep(g) ==
    /\ CanStep(g)
    /\ LET kind == NextStep(g)[1]
           l == NextStep(g)[2]
       IN CASE kind = "RLock" ->
                 /\ lockHolders' = [lockHolders EXCEPT ![l].readers = @ \cup {g}]
                 /\ routine' = [routine EXCEPT ![g] = Tail(@)]
            [] kind = "RUnlock" ->
                 /\ lockHolders' = [lockHolders EXCEPT ![l].readers = @ \ {g}]
                 /\ routine' = [routine EXCEPT ![g] = Tail(@)]
            [] kind = "Lock" ->
                 /\ lockHolders' = [lockHolders EXCEPT ![l].writer = g]
                 /\ routine' = IF lockHolders[l].readers = {}
                               THEN [routine EXCEPT ![g] = Tail(@)]
                               ELSE routine
            [] kind = "Unlock" ->
                 /\ lockHolders' = [lockHolders EXCEPT ![l].writer = NoGoroutine]
                 /\ routine' = [routine EXCEPT ![g] = Tail(@)]
            [] OTHER ->
                 /\ routine' = [routine EXCEPT ![g] = Tail(@)]
                 /\ UNCHANGED lockHolders
    /\ UNCHANGED <<predVars, poolVars, minerVars, gqlVars, chatVars, catVars, pingVars,
                   schedVars, streakVars, betVars, lockVars, flowVars, retryVars,
                   heartbeatVars, taskVars>>

\* The goroutines that must take a step before g can take its next one.
Blockers(g) ==
    LET kind == NextStep(g)[1]
        l == NextStep(g)[2]
    IN IF kind = "Lock" /\ lockHolders[l].writer = g
       THEN lockHolders[l].readers
       ELSE {lockHolders[l].writer}

(***************************************************************************)
(* Part XV: the long-lived goroutines and the cancellation of the context  *)
(***************************************************************************)

\* The writeLoops, and the pingLoops, that run at one time are counted up to
\* this bound.
MaxLoops == 2

\* The loops of Miner.Run's group that wait for a ticker: runMinuteWatcher
\* stands for runCampaignSync, runContextRefresh, runMonitorLoop and
\* Pool.healthMonitor, which select on the same two cases.
Schedulers == {"runMinuteWatcher"}

\* The forwarder of the connection Pool.Run started; the forwarder that
\* Pool.reconnect starts for the connection it dials runs the same loop.
Forwarders == {"forwarder"}

\* After Pool.Run: the router waits for a message, runConnection is in
\* Connection.Run's readLoop with its writeLoop and pingLoop, the forwarder of
\* the connection waits, and the tickers wait.
TasksInit ==
    task = [router |-> "select",
            supervisor |-> "read",
            writers |-> 1,
            pingers |-> 1,
            newConn |-> "none",
            forwarder |-> "select",
            scheduler |-> [s \in Schedulers |-> "select"],
            watcher |-> "select"]

\* The frame of the steps of this part.
notTaskVars == <<predVars, poolVars, minerVars, gqlVars, chatVars, catVars, pingVars,
                 schedVars, streakVars, betVars, lockVars, flowVars, retryVars,
                 heartbeatVars, mutexVars>>

\* The Connection.Run calls that have not returned: their writeLoop and
\* pingLoop have a context that is not cancelled unless the root is.
activeRuns ==
    (IF task.supervisor \in {"read", "deliver"} THEN 1 ELSE 0)
        + (IF task.newConn = "read" THEN 1 ELSE 0)

\* Pool.routeMessages, the select takes a message of p.merged and calls the
\* handler.
routerReceive ==
    /\ task.router = "select"
    /\ task' = [task EXCEPT !.router = "handle"]
    /\ UNCHANGED notTaskVars

\* Pool.routeMessages: the handler returns; its requests are made with ctx.
routerHandled ==
    /\ task.router = "handle"
    /\ task' = [task EXCEPT !.router = "select"]
    /\ UNCHANGED notTaskVars

\* Pool.routeMessages, the select takes ctx.Done().
routerDone ==
    /\ task.router = "select"
    /\ ctxDone
    /\ task' = [task EXCEPT !.router = "returned"]
    /\ UNCHANGED notTaskVars

\* A forwarder that sends to p.merged without a ctx.Done() case.
outerSelectOnly == {"select"}

\* Pool.startForwarder: the positions of the forwarder at which ctx.Done() is
\* a case of its select.
forwarderSelects == {"select", "send"}

\* Pool.startForwarder, the outer select takes a message of the connection.
forwarderReceive(f) ==
    /\ task[f] = "select"
    /\ task' = [task EXCEPT ![f] = "send"]
    /\ UNCHANGED notTaskVars

\* Pool.startForwarder, the inner select sends the message to p.merged.
forwarderSend(f) ==
    /\ task[f] = "send"
    /\ task.router = "select"
    /\ task' = [task EXCEPT ![f] = "select"]
    /\ UNCHANGED notTaskVars

\* Pool.startForwarder, a select takes ctx.Done().
forwarderDone(f) ==
    /\ task[f] \in forwarderSelects
    /\ ctxDone
    /\ task' = [task EXCEPT ![f] = "returned"]
    /\ UNCHANGED notTaskVars

\* Connection.readLoop in Pool.runConnection: wsjson.Read returns a message
\* and handleMessage offers it to c.messages.
readMessage ==
    /\ task.supervisor = "read"
    /\ ~ctxDone
    /\ task' = [task EXCEPT !.supervisor = "deliver"]
    /\ UNCHANGED notTaskVars

\* Connection.handleMessage: the forwarder takes the message.
messageDelivered ==
    /\ task.supervisor = "deliver"
    /\ task.forwarder = "select"
    /\ task' = [task EXCEPT !.supervisor = "read"]
    /\ UNCHANGED notTaskVars

\* Connection.readLoop: wsjson.Read fails while the context is not cancelled;
\* Connection.Run returns and runConnection waits for its backoff.
readError ==
    /\ task.supervisor = "read"
    /\ ~ctxDone
    /\ task' = [task EXCEPT !.supervisor = "backoff"]
    /\ UNCHANGED notTaskVars

\* Pool.runConnection, the select takes time.After(backoff) and calls
\* reconnect, which dials.
backoffElapsed ==
    /\ task.supervisor = "backoff"
    /\ task' = [task EXCEPT !.supervisor = "dial"]
    /\ UNCHANGED notTaskVars

\* Pool.reconnect returns and runConnection calls conn.Run again, which
\* starts a writeLoop and a pingLoop. When the dial succeeded, the Run of the
\* new connection is about to start in a goroutine of its own.
reconnectReturns(dialOk) ==
    /\ task.supervisor = "dial"
    /\ dialOk => ~ctxDone /\ task.newConn = "none"
    /\ task.writers < MaxLoops /\ task.pingers < MaxLoops
    /\ task' = [task EXCEPT !.supervisor = "read",
                            !.writers = @ + 1,
                            !.pingers = @ + 1,
                            !.newConn = IF dialOk THEN "start" ELSE @]
    /\ UNCHANGED notTaskVars

\* Pool.runConnection returns ctx.Err(): readLoop's Read or handleMessage's
\* send end with the cancelled context, or the backoff select takes
\* ctx.Done().
runConnectionDone ==
    /\ task.supervisor \in {"read", "deliver", "backoff"}
    /\ ctxDone
    /\ task' = [task EXCEPT !.supervisor = "returned"]
    /\ UNCHANGED notTaskVars

\* The goroutine of Pool.reconnect calls newConn.Run, which starts a
\* writeLoop and a pingLoop and reads.
newConnRun ==
    /\ task.newConn = "start"
    /\ task.writers < MaxLoops /\ task.pingers < MaxLoops
    /\ task' = [task EXCEPT !.newConn = "read", !.writers = @ + 1, !.pingers = @ + 1]
    /\ UNCHANGED notTaskVars

\* newConn.Run returns: its Read fails, with the context cancelled or not.
newConnReturns ==
    /\ task.newConn = "read"
    /\ task' = [task EXCEPT !.newConn = "returned"]
    /\ UNCHANGED notTaskVars

\* Connection.writeLoop, the select takes ctx.Done(): the root context is
\* cancelled or the Connection.Run that started the loop has returned.
writeLoopDone ==
    /\ task.writers > 0
    /\ ctxDone \/ task.writers > activeRuns
    /\ task' = [task EXCEPT !.writers = @ - 1]
    /\ UNCHANGED notTaskVars

\* Connection.pingLoop, the select takes ctx.Done().
pingLoopDone ==
    /\ task.pingers > 0
    /\ ctxDone \/ task.pingers > activeRuns
    /\ task' = [task EXCEPT !.pingers = @ - 1]
    /\ UNCHANGED notTaskVars

\* Connection.pingLoop returns at a tick: the connection is not connected or
\* its last PONG is too old.
pingLoopGivesUp ==
    /\ task.pingers > 0
    /\ task' = [task EXCEPT !.pingers = @ - 1]
    /\ UNCHANGED notTaskVars

\* A ticker loop, the select takes ticker.C and starts the work of the tick.
schedulerTick(s) ==
    /\ task.scheduler[s] = "select"
    /\ task' = [task EXCEPT !.scheduler[s] = "tick"]
    /\ UNCHANGED notTaskVars

\* A ticker loop: the work of the tick ends, its requests made with ctx.
\* Miner.runMinuteWatcher returns when SendMinuteWatchedEvents returned an
\* error and the context is cancelled.
schedulerTicked(s, cancelled) ==
    /\ task.scheduler[s] = "tick"
    /\ cancelled => ctxDone
    /\ task' = [task EXCEPT !.scheduler[s] =
                                IF cancelled THEN "returned" ELSE "select"]
    /\ UNCHANGED notTaskVars

\* A ticker loop, the select takes ctx.Done().
schedulerDone(s) ==
    /\ task.scheduler[s] = "select"
    /\ ctxDone
    /\ task' = [task EXCEPT !.scheduler[s] = "returned"]
    /\ UNCHANGED notTaskVars

\* CategoryWatcher.Run, the select takes ticker.C and calls evaluate.
watcherTick ==
    /\ task.watcher = "select"
    /\ task' = [task EXCEPT !.watcher = "evaluate"]
    /\ UNCHANGED notTaskVars

\* CategoryWatcher.evaluate returns.
watcherEvaluated ==
    /\ task.watcher = "evaluate"
    /\ task' = [task EXCEPT !.watcher = "select"]
    /\ UNCHANGED notTaskVars

\* CategoryWatcher.Run, the select takes ctx.Done() and removes the picks.
watcherDone ==
    /\ task.watcher = "select"
    /\ ctxDone
    /\ task' = [task EXCEPT !.watcher = "shutdown"]
    /\ UNCHANGED notTaskVars

\* CategoryWatcher.Run returns after the picks are removed.
watcherReturns ==
    /\ task.watcher = "shutdown"
    /\ task' = [task EXCEPT !.watcher = "returned"]
    /\ UNCHANGED notTaskVars

\* The goroutines Miner.Run's g.Wait() and Pool.Run's g.Wait() wait for have
\* returned.
GroupReturned ==
    /\ task.router = "returned"
    /\ task.supervisor = "returned"
    /\ \A s \in Schedulers : task.scheduler[s] = "returned"
    /\ task.watcher = "returned"

\* Miner.Run: g.Wait() returns and Run returns.
MinerRunWaited ==
    /\ GroupReturned
    /\ MinerRunReturn

(***************************************************************************)
(* Specifications                                                          *)
(***************************************************************************)

\* Everything but the watch scheduler, as constructed.
Constructed ==
    PredInit /\ PoolInit /\ MinerInit /\ GqlInit /\ ChatInit /\ CatInit /\ PingInit
    /\ StreakInit /\ BetInit /\ LockInit /\ FlowInit /\ RetryInit /\ HeartbeatInit /\ MutexInit /\ TasksInit

Init == Constructed /\ SchedIdle

\* The prediction engine without the bets: every handler and callback step on
\* an event, whatever its outcomes.
PredSteps(ids) ==
    /\ UNCHANGED betVars
    /\ \/ \E e \in ids, s \in Statuses, el, wo, ep \in BOOLEAN :
             HandlePredictionCreated(e, s, el, wo, ep)
       \/ HandlePredictionCreatedStore
       \/ \E e \in ids, s \in Statuses : HandlePredictionUpdated(e, s)
       \/ \E e \in ids, s \in Statuses : HandlePredictionLocked(e, s)
       \/ \E e \in ids : HandlePredictionMade(e)
       \/ \E e \in ids, r \in BOOLEAN : HandlePredictionResult(e, r)
       \/ \E t \in EvObjs : TimerFire(t)
       \/ \E t \in EvObjs : CbDelete(t)
       \/ \E t \in EvObjs : CbLookup(t)
       \/ \E t \in EvObjs, sk, am \in BOOLEAN : CbDecide(t, sk, am)
       \/ \E t \in EvObjs, ok \in BOOLEAN : CbCall(t, ok)
       \/ \E t \in EvObjs : CbMark(t)

PredNext == PredSteps(EventIDs)

PredSpec == Init /\ [][PredNext]_vars

\* Startup of one miner.
Startup(configs) ==
    \/ /\ phase = "new"
       /\ \E c \in configs, followersOk \in BOOLEAN,
             failed \in SUBSET (1..(MaxConfigured + MaxFollowers)) :
             resolveStreamers(c, followersOk, failed)
    \/ subscribeAllTopics
    \/ MinerRun
    \/ MinerPoolRun

\* The miner's Pool calls.
PoolCalls ==
    \/ \E dialOk \in BOOLEAN : PoolSubscribe(dialOk)
    \/ PoolUnsubscribeStreamer
    \/ PoolUnsubscribe

\* The connections' goroutines and the reconnect supervisors.
Connections ==
    \/ \E c \in ConnIds : ConnectionRun(c)
    \/ \E c \in ConnIds : SocketClose(c)
    \/ \E c \in ConnIds : readLoop(c)
    \/ \E c \in ConnIds : writeLoop(c)
    \/ \E c \in ConnIds : runConnection(c)
    \/ \E c \in ConnIds, dialOk \in BOOLEAN : reconnectDial(c, dialOk)
    \/ \E c \in ConnIds : reconnectSwap(c)
    \/ \E c \in ConnIds : reconnectSubscribe(c)
    \/ \E c \in ConnIds, dialOk \in BOOLEAN : runConnectionDetached(c, dialOk)

\* The steps of the category watcher after evaluate has looked at the
\* tracked streamers.
CategoryWatcherSteps ==
    \/ evaluateRemoved
    \/ evaluateNoCandidate
    \/ \E candidate \in TopStreams : evaluateAdd(candidate)
    \/ evaluateAdded

\* The category watcher while other goroutines, not part of the
\* specification, write the streamers' online flag and game: the results of
\* isCategoryCovered and checkStreamerValidity are inputs.
CategoryWatcher ==
    \/ \E covered \in BOOLEAN, validity \in Validities : tickEvaluate(covered, validity)
    \/ CategoryWatcherSteps

\* The category watcher whose pick stays valid and is removed only when a
\* regular streamer covers the category: the pool sees the same calls as with
\* a pick that is removed for any other reason.
CoveringWatcher ==
    \/ \E covered \in BOOLEAN : tickEvaluate(covered, "valid")
    \/ CategoryWatcherSteps

\* The connections' goroutines while every socket stays up.
HealthyConnections ==
    \/ \E c \in ConnIds : ConnectionRun(c)
    \/ \E c \in ConnIds : writeLoop(c)

MinerNext ==
    \/ Startup(Configs)
    \/ PoolCalls
    \/ HealthyConnections
    \/ CategoryWatcher

\* One miner from any configuration, with its category watcher, while the
\* PubSub sockets stay up.
MinerSpec == Init /\ [][MinerNext]_vars

PoolNext ==
    \/ Startup(PlainConfigs)
    \/ PoolCalls
    \/ Connections
    \/ CoveringWatcher

\* One miner with its category watcher, its pool and the reconnect
\* supervisors, with sockets that may close at any time.
PoolSpec == Init /\ [][PoolNext]_vars

\* The configurations without category watcher: the topic set is fixed once
\* subscribeAllTopics has returned.
StaticConfigs == {c \in PoolConfigs : ~c.categoryWatcher}

FairNext ==
    \/ Startup(StaticConfigs)
    \/ \E dialOk \in BOOLEAN : PoolSubscribe(dialOk)
    \/ Connections

\* Every goroutine that can take a step eventually takes it, and a dial that
\* is retried forever eventually succeeds. Sockets close whenever they do.
Fairness ==
    /\ WF_vars(Startup(StaticConfigs))
    /\ WF_vars(\E dialOk \in BOOLEAN : PoolSubscribe(dialOk))
    /\ \A c \in ConnIds :
          /\ WF_vars(ConnectionRun(c))
          /\ WF_vars(readLoop(c))
          /\ WF_vars(writeLoop(c))
          /\ WF_vars(runConnection(c))
          /\ SF_vars(reconnectDial(c, TRUE))
          /\ WF_vars(reconnectSwap(c))
          /\ WF_vars(reconnectSubscribe(c))

\* One miner with a fixed topic set, its pool and the reconnect supervisors,
\* under fair scheduling.
FairSpec == Init /\ [][FairNext]_vars /\ Fairness


GqlNext ==
    \/ UNCHANGED retryVars /\ \E r \in Requests : doHTTPRequest(r)
    \/ UNCHANGED retryVars /\ \E r \in Requests, outcome \in Outcomes : httpAttempt(r, outcome)
    \/ SetStartupMode
    \/ SetNormalMode
    \/ Tick

\* The GQL client with concurrent callers, any outcome of every HTTP attempt
\* and the passing of time.
GqlSpec == Init /\ [][GqlNext]_vars

\* The PubSub message handler for video-playback messages.
Handlers ==
    \/ \E channelID \in Channels, msgType \in {"stream-up", "stream-down"} :
          handleMessage(channelID, msgType)
    \/ handleStreamUp
    \/ handleStreamDown

PresenceNext ==
    \/ Startup(Configs)
    \/ PoolCalls
    \/ HealthyConnections
    \/ CategoryWatcher
    \/ Handlers

\* One miner from any configuration with its category watcher and the
\* handler of the video-playback messages, while the PubSub sockets stay up.
PresenceSpec == Init /\ [][PresenceNext]_vars

CatNext ==
    \/ Startup(Configs)
    \/ PoolCalls
    \/ HealthyConnections
    \/ tick
    \/ evaluateTracked
    \/ CategoryWatcherSteps
    \/ \E i \in 1..(MaxConfigured + MaxPicks), info \in StreamStates :
          CheckStreamerOnline(i, info)
    \/ Cancel
    \/ RunShutdown
    \/ RunShutdownRemoved

\* One miner from any configuration with its category watcher, the online monitor writing the
\* streamers' state, and cancellation, while the PubSub sockets stay up.
CatSpec == Init /\ [][CatNext]_vars

\* The shutdown is followed with the messages of one event id: its event can
\* be created again after a result, so both EventPrediction objects and both
\* bet timers are used.
ShutdownEventIDs == {1}

ShutdownNext ==
    \/ PredSteps(ShutdownEventIDs)
    \/ Cancel
    \/ MinerRunReturn

\* The prediction engine with cancellation and the return of Miner.Run.
ShutdownSpec == Init /\ [][ShutdownNext]_vars

PingNext ==
    \/ FairNext
    \/ \E c \in ConnIds : pingLoop(c)
    \/ \E c \in ConnIds : handlePong(c)
    \/ IntervalPasses

\* One miner with a fixed topic set, its pool, the reconnect supervisors and
\* the keepalive, under fair scheduling: time passes and every pingLoop gets
\* its ticks; the server sends a PONG, and the socket fails, whenever they do.
PingSpec ==
    /\ Init /\ [][PingNext]_vars
    /\ Fairness
    /\ WF_vars(IntervalPasses)
    /\ \A c \in ConnIds : WF_vars(pingLoop(c))

\* The watch scheduler handling a tick on any of the inputs.
SchedInit == Constructed /\ SchedInputs

SchedNext == runMinuteWatcher

SchedSpec == SchedInit /\ [][SchedNext]_vars

\* One configured streamer with the default topics, and the category watcher.
WatchConfigs ==
    {c \in PoolConfigs : /\ c.categoryWatcher
                         /\ Len(c.streamers) = 1
                         /\ ~c.streamerDefaults.makePredictions
                         /\ ~c.streamerDefaults.claimMoments}

WatchNext ==
    \/ Startup(WatchConfigs)
    \/ PoolCalls
    \/ tick
    \/ evaluateTracked
    \/ CategoryWatcherSteps
    \/ \E i \in 1..(MaxConfigured + MaxPicks), info \in StreamStates :
          CheckStreamerOnline(i, info)
    \/ \E i \in 1..(MaxConfigured + MaxPicks) : SendMinuteWatchedEvents(i)
    \/ \E ch \in Channels, ok \in BOOLEAN : minuteWatchedSent(ch, ok)
    \/ Tick

\* One miner with its category watcher, the online monitor, the minute-watched
\* events and the clock; the PubSub connections only keep their topic lists.
WatchSpec == Init /\ [][WatchNext]_vars

\* The outcomes of a message: nobody has voted, the two-outcome scenario, and
\* the scenario with the outcomes exchanged.
BetOutcomes ==
    {<<parseOutcome(0, 0), parseOutcome(0, 0)>>,
     <<parseOutcome(100, 10000), parseOutcome(50, 5000)>>,
     <<parseOutcome(50, 5000), parseOutcome(100, 10000)>>}

\* streamer.Settings.Bet: the defaults, alone and with a filter.
BetSettings ==
    {DefaultBetSettings,
     [DefaultBetSettings EXCEPT !.filterCondition =
        [by |-> "decision_users", where |-> "GT", value |-> Hundredths * 1000]],
     [DefaultBetSettings EXCEPT !.filterCondition =
        [by |-> "total_users", where |-> "GT", value |-> Hundredths * 120]]}

Balances == {10000, 100}

PointsWon == {0, 1500}

\* The prediction engine on the first event of a run, with the bets, the
\* history and the notifications.
BetNext ==
    \/ /\ nextEv = 1
       /\ \E s \in Statuses, el, wo \in BOOLEAN, balance \in Balances,
             outcomes \in BetOutcomes, settings \in BetSettings :
             handlePredictionCreated(1, s, el, wo, balance, outcomes, settings)
    \/ quiet(HandlePredictionCreatedStore)
    \/ \E s \in Statuses, outcomes \in BetOutcomes : handlePredictionUpdated(1, s, outcomes)
    \/ \E s \in Statuses : quiet(HandlePredictionLocked(1, s))
    \/ quiet(HandlePredictionMade(1))
    \/ \E r \in BOOLEAN, type \in ResultTypes, won \in PointsWon :
          handlePredictionResult(1, r, TRUE, type, won)
    \/ \E reasonCode \in {"PREDICTION", "WATCH"}, earned \in PointsWon \ {0} :
          handlePointsEarnedOrSpent(reasonCode, earned)
    \/ \E t \in EvObjs : quiet(TimerFire(t))
    \/ \E t \in EvObjs : quiet(CbDelete(t))
    \/ \E t \in EvObjs : quiet(CbLookup(t))
    \/ \E t \in EvObjs, balance \in Balances : MakePrediction(t, balance, 1)
    \/ \E t \in EvObjs, ok \in BOOLEAN : quiet(CbCall(t, ok))
    \/ \E t \in EvObjs : quiet(CbMark(t))

BetSpec == Init /\ [][BetNext]_vars

\* The handler's lookups and the online checks' stream updates on the tracked
\* streamers.
LockNext ==
    \/ Startup(PoolConfigs)
    \/ \E dialOk \in BOOLEAN : PoolSubscribe(dialOk)
    \/ \E channelID \in Channels : getStreamerByChannelIDRLock(channelID)
    \/ getStreamerByChannelIDNext
    \/ \E i \in 1..(MaxConfigured + MaxFollowers) : updateStreamInfo(i)
    \/ \E ch \in Channels, hasInfo \in BOOLEAN : updateStreamLock(ch, hasInfo)
    \/ \E ch \in Channels, wantsCampaigns \in BOOLEAN : updateStreamPayload(ch, wantsCampaigns)
    \/ \E ch \in Channels : updateStreamReturn(ch)

LockSpec == Init /\ [][LockNext]_vars

\* The miner's startup and Pool calls run to their end, and every started
\* Connection.Run and writeLoop gets its steps.
ListenFairness ==
    /\ WF_vars(Startup(Configs))
    /\ WF_vars(PoolCalls)
    /\ \A c \in ConnIds : WF_vars(ConnectionRun(c)) /\ WF_vars(writeLoop(c))

\* One miner from any configuration, with its category watcher, while the
\* PubSub sockets stay up, under fair scheduling of the pool.
ListenSpec == Init /\ [][MinerNext]_vars /\ ListenFairness

\* A static configuration with one streamer and no optional topic but raid:
\* three topics, which take two connections.
FlowConfigs == {c \in StaticConfigs \cap PlainConfigs : Len(c.streamers) = 1}

\* The way of a message: the reader of a running connection, the forwarders
\* and the router.
MessageFlow ==
    \/ \E c \in ConnIds, identifier \in Identifiers : connectionHandleMessage(c, identifier)
    \/ \E c \in ConnIds : startForwarderReceive(c)
    \/ \E c \in ConnIds : startForwarderSend(c)
    \/ routeMessages

FlowNext ==
    \/ Startup(FlowConfigs)
    \/ \E dialOk \in BOOLEAN : PoolSubscribe(dialOk)
    \/ Connections
    \/ MessageFlow

\* A pool with its connections, their reconnects and the messages they read.
FlowSpec == Init /\ [][FlowNext]_vars

ReconnectNext ==
    \/ FairNext
    \/ \E c \in ConnIds : handleResponseReconnect(c)

\* One miner with a fixed topic set under fair scheduling, whose server sends
\* RECONNECT messages and closes the socket of a connection it has asked to
\* reconnect.
ReconnectSpec ==
    /\ Init
    /\ [][ReconnectNext]_vars
    /\ Fairness
    /\ \A c \in ConnIds : WF_vars(ReconnectRequested(c) /\ SocketClose(c))

RetryNext ==
    \/ \E r \in Requests : doHTTPRequestEnter(r)
    \/ \E r \in Requests, response \in Responses : doHTTPRequestAttempt(r, response)
    \/ SetStartupMode
    \/ SetNormalMode

\* The GQL client with concurrent callers and the response of every HTTP
\* attempt, in startup mode and in normal mode.
RetrySpec == Init /\ [][RetryNext]_vars

HeartbeatNext ==
    \/ \E selected \in Selections : minuteWatcherTick(selected)
    \/ minuteWatcherDone
    \/ \E h \in HeartbeatRuns : SendMinuteWatchedIteration(h)
    \/ Cancel
    \/ Tick

\* The minute watcher with its heartbeats, the clock, and the cancellation of
\* the miner's context.
HeartbeatSpec == Init /\ [][HeartbeatNext]_vars

MutexNext ==
    \/ \E g \in Goroutines : \E r \in Routines(g) : StartRoutine(g, r)
    \/ \E g \in Goroutines : RoutineStep(g)

\* The goroutines of one miner with the routines in which they take locks.
MutexSpec == Init /\ [][MutexNext]_vars

TasksNext ==
    \/ routerReceive
    \/ routerHandled
    \/ routerDone
    \/ \E f \in Forwarders : forwarderReceive(f)
    \/ \E f \in Forwarders : forwarderSend(f)
    \/ \E f \in Forwarders : forwarderDone(f)
    \/ readMessage
    \/ messageDelivered
    \/ readError
    \/ backoffElapsed
    \/ \E dialOk \in BOOLEAN : reconnectReturns(dialOk)
    \/ runConnectionDone
    \/ newConnRun
    \/ newConnReturns
    \/ writeLoopDone
    \/ pingLoopDone
    \/ pingLoopGivesUp
    \/ \E s \in Schedulers : schedulerTick(s)
    \/ \E s \in Schedulers, cancelled \in BOOLEAN : schedulerTicked(s, cancelled)
    \/ \E s \in Schedulers : schedulerDone(s)
    \/ watcherTick
    \/ watcherEvaluated
    \/ watcherDone
    \/ watcherReturns
    \/ Cancel
    \/ MinerRunWaited

\* Every goroutine gets its steps: a call made with the context returns, a
\* goroutine that was started runs, and a select at which ctx.Done() is ready
\* again and again takes it, as Go chooses among the ready cases at random.
\* Messages, ticks and socket errors come whenever they do.
TasksFairness ==
    /\ WF_vars(routerHandled)
    /\ SF_vars(routerDone)
    /\ \A f \in Forwarders : SF_vars(forwarderDone(f))
    /\ WF_vars(backoffElapsed)
    /\ WF_vars(\E dialOk \in BOOLEAN : reconnectReturns(dialOk))
    /\ SF_vars(runConnectionDone)
    /\ WF_vars(newConnRun)
    /\ WF_vars(ctxDone /\ newConnReturns)
    /\ WF_vars(writeLoopDone)
    /\ WF_vars(pingLoopDone)
    /\ \A s \in Schedulers :
          /\ WF_vars(\E cancelled \in BOOLEAN : schedulerTicked(s, cancelled))
          /\ SF_vars(schedulerDone(s))
    /\ WF_vars(watcherEvaluated)
    /\ SF_vars(watcherDone)
    /\ WF_vars(watcherReturns)
    /\ WF_vars(MinerRunWaited)

\* The goroutines of one running miner and the cancellation of its context,
\* under fair scheduling.
TasksSpec == Init /\ [][TasksNext]_vars /\ TasksFairness

(***************************************************************************)
(* Properties of the prediction engine                                     *)
(***************************************************************************)

\* C3: for every prediction event id the MakePrediction GQL call is issued at
\* most once, and bet_placed is true only if it was issued exactly once.
C3_AtMostOnePlacement ==
    \A e \in EventIDs :
        /\ gqlCalls[e] <= 1
        /\ \A o \in EvObjs :
              (events[o].id = e /\ events[o].betPlaced) => gqlCalls[e] = 1

\* C4: once a prediction-result message for an event that was in the live map
\* has been handled, the event id is absent from the live map and from the
\* pending-timers map, whether or not its bet was placed or confirmed.
C4_ResultRemovesEvent ==
    (lastHandled.type = "result" /\ lastHandled.found) =>
        /\ eventsPredictions[lastHandled.id] = 0
        /\ pendingTimers[lastHandled.id] = 0

\* C5: no MakePrediction GQL call is issued for an event after the result
\* handler has removed that event from the live map: whenever a bet-timer
\* callback issues the call, the event it bets on is still the live-map entry.
C5_NoCallAfterRemoval ==
    [][\A t \in EvObjs :
          (timer[t] = "cb_call" /\ timer'[t] # "cb_call") =>
              eventsPredictions[events[cbPrediction[t]].id] = cbPrediction[t]]_vars

\* C6: every event in the live map that is bet_confirmed is also bet_placed.
C6_ConfirmedImpliesPlaced ==
    \A e \in EventIDs :
        eventsPredictions[e] # 0 =>
            (events[eventsPredictions[e]].betConfirmed =>
                events[eventsPredictions[e]].betPlaced)


(***************************************************************************)
(* Properties of the pool, its reconnect supervision and the streamer set *)
(***************************************************************************)

\* The pool slot a connection object was created for.
SlotOf(c) == IF c > MaxPubSubConns THEN c - MaxPubSubConns ELSE c

\* Connection c has been replaced in its slot by a connection that has issued
\* LISTEN requests for exactly the topics c holds.
Reestablished(c) ==
    /\ SlotOf(c) <= Len(conns)
    /\ conns[SlotOf(c)] # c
    /\ connection[conns[SlotOf(c)]].listened = Range(connection[c].topics)

\* No reconnect is between installing its new connection and re-subscribing
\* the topics on it.
NoReconnectInProgress == \A d \in ConnIds : sup[d].pc # "resub"

\* C1: whenever the socket of a pool connection holding topics T1..Tn is
\* closed while the context is live, and TotalTopicCount() is n with no
\* reconnect in progress, then eventually a new connection is installed in the
\* same pool slot that has issued LISTEN requests for exactly T1..Tn, and
\* TotalTopicCount() is n again.
C1_ReconnectPreservesTopics ==
    \A c \in ConnIds : \A n \in 0..(MaxTopicsPerConn * MaxPubSubConns) :
        (/\ phase = "running"
         /\ InPool(c)
         /\ connection[c].socket = "closed"
         /\ connection[c].topics # <<>>
         /\ NoReconnectInProgress
         /\ TotalTopicCount = n)
        ~> (Reestablished(c) /\ TotalTopicCount = n)

\* C2: under any interleaving of Pool.Subscribe, Pool.Unsubscribe and
\* reconnect, every connection of the pool holds at most MaxTopicsPerConn
\* topics.
C2_TopicCap ==
    \A i \in 1..Len(conns) : TopicCount(conns[i]) <= MaxTopicsPerConn

\* C7: if the session of any pool connection (including one installed by an
\* earlier reconnect) ends with an error while the context is live, then
\* eventually a new connection is installed in the pool in its place and its
\* topics are re-LISTENed.
C7_EverySessionErrorReconnects ==
    \A c \in ConnIds :
        (phase = "running" /\ InPool(c) /\ run[c] = "exited")
        ~> (/\ SlotOf(c) <= Len(conns)
            /\ conns[SlotOf(c)] # c
            /\ Range(connection[c].topics) \subseteq connection[conns[SlotOf(c)]].listened)

\* C8: at every point where TotalTopicCount() can be observed (Pool.mu is
\* free), including during a reconnect, it equals the number of distinct
\* topics that were subscribed through the pool and not unsubscribed since.
C8_TotalMatchesSubscribed ==
    ~PoolMuHeld => TotalTopicCount = Cardinality(subscribed)

\* The topics of one channel, and all other topics, held by the pool.
ChannelTopics(channelID) == {t \in PoolTopics : t.streamer = channelID}
OtherTopics(channelID) == {t \in PoolTopics : t.streamer # channelID}

\* C9: when addStreamer(s) has subscribed without error the pool holds
\* exactly the topics derived from s for the channel of s; when
\* removeStreamer(s) returns the pool holds no topic of that channel; and no
\* step of either call changes the user topics or the topics of another
\* channel.
C9_AddRemoveExactTopics ==
    [][/\ (cw = "add" /\ call.op = "sub" /\ call'.op = "ret" /\ ~call'.err) =>
              ChannelTopics(call.channel)' = Range(streamerTopics(streamers[Len(streamers)]))
       /\ (cw = "remove" /\ call.op \in {"collect", "unsub"} /\ call'.op = "ret") =>
              ChannelTopics(call.channel)' = {}
       /\ (cw \in {"add", "remove"} /\ call.op \in {"sub", "collect", "unsub"}
              /\ call' # call) =>
              OtherTopics(call.channel)' = OtherTopics(call.channel)]_vars

\* C10: the tracked-streamer list never holds two entries whose logins are
\* equal ignoring case.
C10_NoDuplicateLogins ==
    \A i, j \in 1..Len(streamers) :
        i # j => ~EqualFold(streamers[i].username, streamers[j].username)

(***************************************************************************)
(* Properties of the GQL circuit breaker                                   *)
(***************************************************************************)

\* Caller r enters doHTTPRequest in this step.
Begins(r) == req[r].pc = "idle" /\ req'[r] # req[r]

\* C11: after ten consecutive requests that exhausted their retries, with no
\* success in between, a request made within (fails - 9) x 30 s (at most 5
\* minutes) of the last failure returns CIRCUIT_OPEN without an HTTP attempt.
C11_BreakerOpensAfterTenFailures ==
    [][\A r \in Requests :
          (/\ failedRuns >= BreakerThreshold
           /\ clock < lastFailedAt + Min(failedRuns - 9, MaxCooldown)
           /\ Begins(r))
          => (req'[r].pc = "idle" /\ req'[r].result = "circuit_open")]_vars

\* Caller r's request completes successfully in this step.
Succeeds(r) == req[r].pc = "attempt" /\ req'[r].pc = "idle" /\ req'[r].result = "ok"

Tracked(channelID) == \E i \in 1..Len(streamers) : streamers[i].channelID = channelID

\* removeStreamer for this channel id has not returned yet.
Removing(channelID) == cw \in {"remove", "shutdown"} /\ call.channel = channelID

\* The chat of the channel's login is joined.
Joined(channelID) ==
    \E login \in channels : GetChannelID(login) = channelID

\* C13: once removeStreamer(s) has returned, and until s is added again, no
\* connection of the pool holds a channel topic of s and the chat of s is not
\* joined, also while PubSub messages for s are being handled.
C13_RemovedStaysGone ==
    \A channelID \in Channels :
        (~Tracked(channelID) /\ ~Removing(channelID))
        => (ChannelTopics(channelID) = {} /\ ~Joined(channelID))

\* A tracked streamer that is not category-watched is online in the category.
RegularOnlineInCategory ==
    \E i \in 1..Len(streamers) :
        /\ ~streamers[i].isCategoryWatched
        /\ live[streamers[i].channelID] = "category"

\* The watcher's pick is in the tracked list.
PickTracked ==
    \E i \in 1..Len(streamers) :
        /\ streamers[i].isCategoryWatched
        /\ EqualFold(streamers[i].username, categoryStreamers)

\* evaluate looks at the category in this step.
EvaluateStep == cw = "evaluate" /\ cw' # "evaluate"

\* The watcher records a new pick in this step.
NewPick == categoryStreamers = NoLogin /\ categoryStreamers' # NoLogin

\* evaluate goes on to fetch the top streams in this step.
StartsFetch == cw # "fetch" /\ cw' = "fetch"

\* A new pick is recorded only after a fetch, and a fetch is made only in a
\* tick at which no regular streamer was online in the category.
PickOnlyWhenUncovered ==
    /\ (EvaluateStep /\ RegularOnlineInCategory) => cw' # "fetch"
    /\ NewPick => cw = "fetch"
    /\ StartsFetch => \/ cw = "evaluate" /\ ~RegularOnlineInCategory
                      \/ cw = "remove" /\ removal # CoveredByRegular

\* C14 as stated: at every poll tick at which a regular streamer is online in
\* the category and the watcher holds a pick, the pick is removed with reason
\* category_covered_by_regular, and no pick is added in that tick or in a
\* later one at which the regular streamer is still online in the category.
C14_AnyTick ==
    [][/\ (EvaluateStep /\ RegularOnlineInCategory /\ categoryStreamers # NoLogin)
          => (removal' = CoveredByRegular /\ ~PickTracked')
       /\ PickOnlyWhenUncovered]_vars

\* C14, for the ticks whose evaluate finds the context not cancelled: the pick
\* of a category in which a regular streamer is online is removed with reason
\* category_covered_by_regular in that tick, and no pick is added in that tick
\* or in a later one at which the regular streamer is still online in the
\* category.
C14_CoveredPickRemoved ==
    [][/\ (EvaluateStep /\ ~ctxDone /\ RegularOnlineInCategory
              /\ categoryStreamers # NoLogin)
          => (removal' = CoveredByRegular /\ ~PickTracked')
       /\ PickOnlyWhenUncovered]_vars

\* A regular streamer is online in the category and the pick is being removed
\* with reason category_covered_by_regular, while the watcher could add more.
C14_Witness ==
    /\ RegularOnlineInCategory
    /\ removal = CoveredByRegular
    /\ cw = "remove"
    /\ ~PickTracked
    /\ picks < MaxPicks

\* A category-watched streamer is in the tracked list.
CategoryWatchedTracked == \E i \in 1..Len(streamers) : streamers[i].isCategoryWatched

\* CategoryWatcher.Run takes the ctx.Done() branch in this step.
ShutdownStep == cw = "idle" /\ cw' \in {"shutdown", "returned"}

\* C15: when the context is cancelled, Run removes the streamer it holds as
\* pick from the tracked list with reason category_watcher_shutdown, and when
\* Run returns no category-watched streamer is tracked.
C15_ShutdownRemovesPicks ==
    [][/\ (ShutdownStep /\ categoryStreamers # NoLogin)
          => (/\ PickTracked
              /\ removal' = "category_watcher_shutdown"
              /\ ~PickTracked'
              /\ ~CategoryWatchedTracked')
       /\ cw' = "returned" => (~CategoryWatchedTracked' /\ categoryStreamers' = NoLogin)]_vars

\* Run, shutting down, has taken its pick out of the tracked list and is about
\* to return.
C15_Witness ==
    /\ cw = "shutdown"
    /\ ctxDone
    /\ removal = "category_watcher_shutdown"
    /\ call.op = "ret"
    /\ ~CategoryWatchedTracked

\* C16: once Miner.Run has returned after cancellation, the pending-timers
\* map is empty and no bet timer callback issues a MakePrediction request.
C16_NoBetAfterReturn ==
    [][returned' => (/\ \A e \in EventIDs : pendingTimers'[e] = 0
                     /\ returned => gqlCalls' = gqlCalls)]_vars

(***************************************************************************)
(* Properties of the pool at capacity and of the ping timeout              *)
(***************************************************************************)

\* The pool has MaxPubSubConns connections and each holds MaxTopicsPerConn
\* topics.
PoolFull ==
    /\ Len(conns) = MaxPubSubConns
    /\ \A i \in 1..Len(conns) : TopicCount(conns[i]) = MaxTopicsPerConn

\* Pool.Subscribe is at a topic that no connection of the pool holds.
SubscribesNewTopic ==
    /\ call.op = "sub"
    /\ call.rest # <<>>
    /\ Head(call.rest) \notin PoolTopics

\* C17: when the pool has MaxPubSubConns connections that each hold
\* MaxTopicsPerConn topics, Subscribe of a topic not yet held returns an
\* error and leaves the connections of the pool and the topic list of every
\* connection unchanged.
C17_FullPoolRejects ==
    [][(PoolFull /\ SubscribesNewTopic /\ call' # call)
          => (/\ call'.op = "ret"
              /\ call'.err
              /\ conns' = conns
              /\ \A c \in ConnIds : connection'[c].topics = connection[c].topics)]_vars

\* Subscribe has reached a topic that is not held while the pool is full.
C17_Witness == PoolFull /\ SubscribesNewTopic

\* The pingLoop of a reading session has found the last PONG more than
\* 5 minutes old.
PongTimedOut(c) == run[c] = "read" /\ pinging[c] = "timedOut"

\* C18: when a connection has received no PONG for more than 5 minutes (its
\* pingLoop finds lastPong that old), its session ends, so that runConnection
\* can reconnect it.
C18_PongTimeoutEndsSession ==
    \A c \in ConnIds : PongTimedOut(c) ~> (run[c] # "read")

(***************************************************************************)
(* Properties of the watch selection                                       *)
(***************************************************************************)

\* The eligible streamers of the snapshot.
EligibleIndexes ==
    {i \in 1..Len(snapshot) : snapshot[i].isOnline /\ snapshot[i].sinceOnline > 30}

HasDrops(s) == s.claimDrops /\ s.isOnline /\ s.campaignIDs > 0

\* What a rule asks of a streamer.
RuleQualifies(rule, s) ==
    CASE rule = "STREAK" ->
            /\ s.watchStreak /\ s.missing /\ s.minuteWatched < 7
            /\ (s.sinceOffline = NoTime \/ s.sinceOffline > 30)
      [] rule = "DROPS" -> HasDrops(s)
      [] rule = "SUBSCRIBED" -> s.activeMultipliers # <<>>
      [] OTHER -> TRUE

\* Rule `rule` takes the streamer at index u before the one at index t.
RulePrefers(rule, u, t) ==
    CASE rule = "SUBSCRIBED" ->
            SumFactors(snapshot[u].activeMultipliers) > SumFactors(snapshot[t].activeMultipliers)
      [] rule = "POINTS_ASCENDING" -> snapshot[u].channelPoints < snapshot[t].channelPoints
      [] rule = "POINTS_DESCENDING" -> snapshot[u].channelPoints > snapshot[t].channelPoints
      [] OTHER -> u < t

\* The selection after the first j rules.
Stage(j) ==
    IF EligibleIndexes = {} THEN {}
    ELSE selectLoop(SubSeq(priorities, 1, j), snapshot, onlineIndices(snapshot), {}, 2)

\* Rule j adds only streamers it asks for that are eligible and not selected
\* yet, as many as fit in the free slots, and none that it ranks behind one
\* it leaves out.
RuleFillsFreeSlots(j) ==
    LET before == Stage(j - 1)
        added == Stage(j) \ before
        candidates == {i \in EligibleIndexes \ before : RuleQualifies(priorities[j], snapshot[i])}
    IN  /\ before \subseteq Stage(j)
        /\ added \subseteq candidates
        /\ Cardinality(added) = Min(2 - Cardinality(before), Cardinality(candidates))
        /\ \A t \in added, u \in candidates \ added : ~RulePrefers(priorities[j], u, t)

\* Priority [STREAK, DROPS, ORDER], ten eligible streamers, none with a
\* missing streak, five with the drops condition.
CapScenario ==
    /\ priorities = <<"STREAK", "DROPS", "ORDER">>
    /\ Len(snapshot) = ScenarioOnline
    /\ EligibleIndexes = 1..ScenarioOnline
    /\ \A i \in 1..ScenarioOnline : ~snapshot[i].missing
    /\ Cardinality({i \in 1..ScenarioOnline : HasDrops(snapshot[i])}) = ScenarioDrops

\* C19: a tick's selection is the result of applying the priority rules in
\* order to the eligible streamers, each rule filling only the slots the
\* earlier rules left free, and has at most 2 streamers; in the scenario with
\* priority [STREAK, DROPS, ORDER], ten online streamers, none streak-missing
\* and five with the drops condition, exactly 2 are selected and both have the
\* drops condition.
C19_RulesFillInOrder ==
    ticked =>
        /\ Cardinality(toWatch) <= 2
        /\ toWatch \subseteq EligibleIndexes
        /\ toWatch = Stage(Len(priorities))
        /\ \A j \in 1..Len(priorities) : RuleFillsFreeSlots(j)
        /\ CapScenario =>
              /\ Cardinality(toWatch) = 2
              /\ \A i \in toWatch : HasDrops(snapshot[i])

C19_Witness == ticked /\ CapScenario /\ Cardinality(toWatch) = 2 /\ 1 \notin toWatch

\* C20: every streamer selected by a tick is online and has been online for
\* at least 30 seconds.
C20_SelectedOnlineLongEnough ==
    ticked => \A i \in toWatch : snapshot[i].isOnline /\ snapshot[i].sinceOnline >= 30

\* The tick passed over a streamer that is online for 30 seconds or less and
\* selected a later one.
C20_Witness ==
    /\ ticked
    /\ \E i \in 1..Len(snapshot), k \in toWatch :
          /\ i < k
          /\ snapshot[i].isOnline
          /\ snapshot[i].sinceOnline <= 30
          /\ i \notin toWatch

(***************************************************************************)
(* Properties of the streamers' counters                                   *)
(***************************************************************************)

\* The streamer of channel ch goes from offline to online in this step.
GoesOnline(ch) == live[ch] = "offline" /\ live'[ch] # "offline"

\* C21: at each offline-to-online transition of a streamer its minute_watched
\* is reset to 0, and in every other step it does not decrease.
C21_MinuteWatchedMonotone ==
    [][\A ch \in Channels :
          IF GoesOnline(ch) THEN stream'[ch].minuteWatched = 0
          ELSE stream'[ch].minuteWatched >= stream[ch].minuteWatched]_vars

\* A streamer with minutes watched has gone offline.
C21_Witness ==
    \E ch \in Channels : live[ch] = "offline" /\ stream[ch].minuteWatched > 0

(***************************************************************************)
(* Properties of the bets, the history and the notifications               *)
(***************************************************************************)

\* C22: for every reason code the history counter of the streamer never
\* decreases, whatever points-earned and prediction-result messages are
\* handled.
C22_HistoryCounterMonotone ==
    [][\A r \in ReasonCodes : history'[r].counter >= history[r].counter]_vars

\* The value the filter is said to compare: the sum over all outcomes for
\* decision_users and decision_points, the chosen outcome's value for any
\* other key.
statedValue(b) ==
    LET key == b.settings.filterCondition.by
    IN  IF key = "decision_users" \/ key = "decision_points"
        THEN sumValues(b, resolvedKey(key), 0)
        ELSE outcomeValue(b, b.choice, key)

\* C23: the value the skip filter compares is the sum over all outcomes when
\* the key is decision_users or decision_points, and the value of the chosen
\* outcome alone for every other key.
C23_ComparedValue ==
    \A o \in EvObjs :
        (bets[o].bet.settings.filterCondition # NoFilter /\ bets[o].bet.choice >= 0) =>
            comparedValue(bets[o].bet) = statedValue(bets[o].bet)

\* C24: when the bet-timer callback does not place the bet because the skip
\* filter rejected it, the notify callback gets BET_FILTERS, and when the
\* MakePrediction request returned an error, it gets BET_FAILED.
C24_NotPlacedNotifies ==
    [][\A t \in EvObjs :
          /\ (/\ timer[t] = "cb_decide"
              /\ timer'[t] = "done"
              /\ events[cbPrediction[t]].status = "ACTIVE"
              /\ Skip(bets'[cbPrediction[t]].bet)) => "BET_FILTERS" \in notified'
          /\ (timer[t] = "cb_call" /\ timer'[t] = "done") => "BET_FAILED" \in notified']_vars

\* C25: after a bet of 500 points was placed and confirmed, handling the
\* prediction-result WIN with points_won = 1500 increases the history amount
\* of reason PREDICTION by 1500.
C25_WinAddsPointsWon ==
    [][\A o \in EvObjs :
          (/\ events[o].betPlaced
           /\ events[o].betConfirmed
           /\ bets[o].bet.amount = 500
           /\ bets[o].result = NoResult
           /\ bets'[o].result = [type |-> "WIN", gained |-> 1500 - 500]) =>
              history'["PREDICTION"].amount = history["PREDICTION"].amount + 1500]_vars

\* The bet with the statistics of its outcomes as they are now.
withStatistics(b) == UpdateOutcomes(b, b.outcomes)

\* C26: when the bet timer fires for an event with strategy SMART whose
\* outcomes have users and points, the choice follows the user percentages
\* of the outcomes as they are then, updated or not: the highest odds if the
\* first two are closer than percentage_gap, the most users otherwise; with
\* percentage 5 the amount is 5 % of the balance, and for A {100 users, 10 000
\* points}, B {50 users, 5 000 points} the choice is A.
C26_SmartChoice ==
    [][\A t \in EvObjs :
          (/\ timer[t] = "cb_decide"
           /\ timer'[t] # "cb_decide"
           /\ bets[cbPrediction[t]].bet.settings.strategy = "SMART"
           /\ SumField(bets[cbPrediction[t]].bet.outcomes, "totalUsers") > 0
           /\ SumField(bets[cbPrediction[t]].bet.outcomes, "totalPoints") > 0) =>
              /\ bets'[cbPrediction[t]].bet.choice =
                    smartChoice(withStatistics(bets[cbPrediction[t]].bet))
              /\ bets'[cbPrediction[t]].bet.amount \in
                    {(balance * 5) \div 100 : balance \in Balances}]_vars

(***************************************************************************)
(* Properties of the locks                                                 *)
(***************************************************************************)

\* The channel whose Streamer.Mu the handler's lookup takes next, 0 if none.
LookupWaitsFor ==
    IF lookup.pc = "scan" /\ lookup.index <= Len(streamers)
    THEN streamers[lookup.index].channelID ELSE 0

\* C27: no task holds the streamer-list lock while it makes a network call,
\* and none holds it while it waits for a lock whose holder is in a network
\* call: the time the list lock is held does not depend on network I/O.
C27_ListLockOffNetwork ==
    "handler" \in streamersMu =>
        \A ch \in Channels :
            (LookupWaitsFor = ch /\ mu[ch] # "free") => updating[ch] # "campaigns"

(***************************************************************************)
(* Properties of the pool after Pool.Run                                   *)
(***************************************************************************)

AllTopics ==
    {NewUserTopic(PubSubTopicCommunityPoints), NewUserTopic(PubSubTopicPredictionsUser)}
    \cup {NewStreamerTopic(topicType, channelID) :
             topicType \in {PubSubTopicVideoPlayback, PubSubTopicRaid, PubSubTopicPredictions,
                            PubSubTopicCommunityMoments, PubSubTopicCommunityGoals},
             channelID \in Channels}

\* A writeLoop has taken the LISTEN frame of the topic from the writeCh of a
\* pool connection.
ListenTaken(topic) ==
    \E i \in 1..Len(conns) :
        topic \in connection[conns[i]].listened /\ connection[conns[i]].writeCh = 0

\* C29: once Pool.Run has started, every topic that Pool.Subscribe has
\* subscribed, also on a connection it created after Pool.Run had started,
\* eventually has its LISTEN frame written to a socket (or is unsubscribed
\* again before that).
C29_SubscribedIsListened ==
    \A topic \in AllTopics :
        (phase = "running" /\ topic \in subscribed)
            ~> (ListenTaken(topic) \/ topic \notin subscribed)

\* C30: while every supervisor that has replaced its connection has a
\* replacement whose socket is open, no supervisor dials a further connection,
\* so that no socket exists besides those of the pool's slots.
C30_NoReconnectWhileHealthy ==
    [][(\A c \in 1..MaxPubSubConns :
            sup[c].pc = "detached" => connection[Replacement(c)].socket = "open")
       => orphans' = orphans]_vars

(***************************************************************************)
(* Properties of the way of a message                                      *)
(***************************************************************************)

\* The messages of one connection among those the handler was invoked for.
handledOf(c) == SelectSeq(handled, LAMBDA msg : msg.conn = c)

\* C28: the handler is invoked for the messages of one connection in the
\* order in which the connection's reader published them: the k-th invocation
\* for a connection is for the k-th message that connection published.
C28_HandledInPublishedOrder ==
    \A c \in ConnIds :
        /\ Len(handledOf(c)) <= published[c]
        /\ \A k \in 1..Len(handledOf(c)) : handledOf(c)[k].n = k

\* The handler was invoked for two messages of one connection and, between
\* them, for a message of another connection.
C28_Witness ==
    \E i, j, k \in 1..Len(handled) :
        /\ i < j
        /\ j < k
        /\ handled[i].conn = handled[k].conn
        /\ handled[j].conn # handled[i].conn
        /\ handled[i].n = 1
        /\ handled[k].n = 2

(***************************************************************************)
(* Properties of the tracked list and the pool's topics                    *)
(***************************************************************************)

\* The channel-scoped topics the pool's connections hold.
ChannelScopedTopics == {t \in PoolTopics : t.streamer # 0}

\* C31: whenever the miner runs and no add or remove is in progress, the
\* channel-scoped topics held by the pool's connections are the topics
\* derived from the streamers of the tracked list, also after an add or
\* remove in which Subscribe or Unsubscribe reported an error.
C31_TopicsMatchTracked ==
    (phase = "running" /\ cw = "idle" /\ call.op = "idle")
        => ChannelScopedTopics = Range(AllStreamerTopics(streamers))

\* C32: no topic is held by two connections of the pool at the same time.
C32_TopicOnOneConnection ==
    \A i, j \in 1..Len(conns) :
        i # j => Range(connection[conns[i]].topics) \cap Range(connection[conns[j]].topics) = {}

(***************************************************************************)
(* Properties of the connections                                           *)
(***************************************************************************)

\* C33: when the server has sent RECONNECT on a connection of the pool, the
\* connection is eventually replaced in its slot by a connection that has
\* issued LISTEN requests for its topics.
C33_ReconnectMessageReplaces ==
    \A c \in ConnIds :
        (phase = "running" /\ InPool(c) /\ ReconnectRequested(c))
        ~> (/\ SlotOf(c) <= Len(conns)
            /\ conns[SlotOf(c)] # c
            /\ Range(connection[c].topics) \subseteq connection[conns[SlotOf(c)]].listened)

(***************************************************************************)
(* Properties of the GQL client's retries                                  *)
(***************************************************************************)

\* Caller r's loop continues with one more attempt in this step.
Retried(r) ==
    /\ req[r].pc = "attempt"
    /\ req'[r].pc = "attempt"
    /\ req'[r].attempt = req[r].attempt + 1

\* A failure of the transport, while sending or while reading the body.
NetworkError(response) == response.kind \in {"error", "readError"}

\* C34: a request is retried only after a network error, status 429 or a
\* status of 500 and above; retry number n is made after a wait of 2^(n-1)
\* seconds and n is at most the max_retries of the mode the request started
\* in, 3 in normal mode and 1 in startup mode; an attempt that ends with any
\* other status than 200 makes the request fail without a retry.
C34_RetryRule ==
    [][\A r \in Requests :
          /\ Retried(r) =>
                /\ \/ NetworkError(lastResponse'[r])
                   \/ lastResponse'[r].code = 429
                   \/ lastResponse'[r].code >= 500
                /\ req'[r].attempt <= req[r].maxRetries
                /\ req[r].maxRetries \in {1, 3}
                /\ waited'[r] = CASE req'[r].attempt = 1 -> 1
                                  [] req'[r].attempt = 2 -> 2
                                  [] req'[r].attempt = 3 -> 4
          /\ (Begins(r) /\ req'[r].pc = "attempt") =>
                /\ waited'[r] = 0
                /\ req'[r].maxRetries = (IF maxRetries = StartupMaxRetries THEN 1 ELSE 3)
          /\ (/\ req[r].pc = "attempt"
              /\ lastResponse'[r] # lastResponse[r]
              /\ lastResponse'[r].kind = "status"
              /\ lastResponse'[r].code \notin {200, 429}
              /\ lastResponse'[r].code < 500) =>
                (req'[r].pc = "idle" /\ req'[r].result = "error")]_vars

\* A request is in its third retry, after a wait of four seconds, and another
\* request has failed on a status that is not retried.
C34_Witness ==
    \E r, q \in Requests :
        /\ req[r].pc = "attempt"
        /\ req[r].attempt = 3
        /\ waited[r] = 4
        /\ lastResponse[r].code = 500
        /\ req[q].pc = "idle"
        /\ req[q].result = "error"
        /\ lastResponse[q] = [kind |-> "status", code |-> 404]

\* C40: whenever a step adds a topic to the topic list of a connection, the
\* LISTEN of the topic was enqueued on the connection or the topic is pending
\* for replay; a Subscribe that finds the write queue full adds nothing.
C40_SubscribedOnlyIfEnqueued ==
    [][\A c \in ConnIds :
          \A topic \in Range(connection'[c].topics) \ Range(connection[c].topics) :
              \/ topic \in connection'[c].listened
              \/ topic \in Range(connection'[c].pendingTopics)]_vars

(***************************************************************************)
(* Properties of the forwarders                                            *)
(***************************************************************************)

\* C36: the number of running forwarders does not exceed the number of
\* connections in the pool, and the forwarder of a connection that a
\* reconnect has replaced does not run.
C36_ForwardersBounded ==
    /\ runningForwarders <= Len(conns)
    /\ \A c \in ConnIds : forwarderStarted(c) => InPool(c)

(***************************************************************************)
(* Properties of the pending timers                                        *)
(***************************************************************************)

\* C39: the pending-timers map holds an entry for an event id only while the
\* id is in the live prediction map and the callback of the entry's timer has
\* not yet deleted the entry of its id, whether the callback runs before or
\* after the handler stores the entry.
C39_PendingOnlyWhileArmed ==
    \A e \in EventIDs :
        pendingTimers[e] # 0 =>
            /\ eventsPredictions[e] # 0
            /\ timer[pendingTimers[e]] \in {"armed", "cb_delete"}

(***************************************************************************)
(* Properties of the heartbeat loop                                        *)
(***************************************************************************)

\* A heartbeat of the running tick has failed.
SomeHeartbeatFailed ==
    heartbeat.pc = "send" /\ \E k \in 1..Len(heartbeat.failed) : heartbeat.failed[k]

\* The minutes of the streamer whose heartbeat fails in this step stay as they
\* are.
FailedNotIncremented ==
    (/\ heartbeat.pc = "send"
     /\ Len(heartbeat'.errs) > Len(heartbeat.errs)
     /\ heartbeat'.failed[Len(heartbeat'.errs)])
        => stream'[heartbeat.toWatch[Len(heartbeat'.errs)]] =
               stream[heartbeat.toWatch[Len(heartbeat'.errs)]]

\* The loop goes on to the next selected streamer, and after the last one the
\* minute watcher waits for its next tick with every selected streamer
\* attempted.
TickContinues ==
    /\ heartbeat'.pc \in {"send", "wait"}
    /\ heartbeat'.toWatch = heartbeat.toWatch
    /\ Len(heartbeat'.errs) = Len(heartbeat.errs) + 1
    /\ heartbeat'.pc = "wait" <=> Len(heartbeat'.errs) = Len(heartbeat.toWatch)

\* The minute watcher takes a step of its heartbeat loop.
LoopStep == heartbeat.pc = "send" /\ heartbeat' # heartbeat

\* C37 as stated: a streamer whose heartbeat fails keeps its minute_watched,
\* and once a heartbeat of a tick has failed every remaining selected streamer
\* of the tick is still attempted and the minute watcher goes on to wait for
\* its next tick.
C37_AnyFailure ==
    [][/\ FailedNotIncremented
       /\ (LoopStep /\ SomeHeartbeatFailed) => TickContinues]_vars

\* C37, for the iterations that find the context not cancelled: a streamer
\* whose heartbeat fails at any step keeps its minute_watched, the loop goes
\* on to every remaining selected streamer of the tick, and after the last
\* one the minute watcher waits for its next tick.
C37_FailureSwallowed ==
    [][/\ FailedNotIncremented
       /\ (LoopStep /\ ~ctxDone) => TickContinues]_vars

\* In one tick the heartbeat of the first selected streamer failed and the
\* heartbeat of the second one added to its minutes, and the minute watcher
\* waits for the next tick.
C37_Witness ==
    /\ heartbeat.pc = "wait"
    /\ Len(heartbeat.errs) = 2
    /\ heartbeat.failed[1]
    /\ ~heartbeat.failed[2]
    /\ stream[heartbeat.toWatch[2]].minuteWatched > 0
    /\ stream[heartbeat.toWatch[1]].minuteWatched = 0

(***************************************************************************)
(* Properties of the locks                                                 *)
(***************************************************************************)

\* Goroutine g is in a routine and cannot take its next step.
Waiting(g) == routine[g] # <<>> /\ ~CanStep(g)

\* Every goroutine of D waits for a lock, and only goroutines of D can let it
\* go on.
Deadlocked(D) == D # {} /\ \A g \in D : Waiting(g) /\ Blockers(g) \subseteq D

\* C38: in no reachable state of the router's handlers, the bet-timer
\* callbacks, the category watcher, the watch scheduler and the pool
\* supervisors is there a set of goroutines that wait for one another on the
\* streamer-list lock, the streamer locks, the pool lock, the connection
\* lock, the category-watcher lock, the prediction-map lock and the
\* pending-timers lock.
C38_NoDeadlock == \A D \in SUBSET Goroutines : ~Deadlocked(D)

\* The router holds the list for reading and waits for a streamer's lock,
\* while the category watcher, inside cw.mu, waits for the list to write it.
C38_Witness ==
    /\ Waiting("router")
    /\ "router" \in lockHolders[streamersMuLock].readers
    /\ Waiting("watcher")
    /\ lockHolders[streamersMuLock].writer = "watcher"
    /\ lockHolders[cwMu].writer = "watcher"

(***************************************************************************)
(* Properties of the shutdown                                              *)
(***************************************************************************)

\* Every long-lived goroutine has returned.
AllTerminated ==
    /\ GroupReturned
    /\ task.writers = 0
    /\ task.pingers = 0
    /\ task.newConn \in {"none", "returned"}
    /\ \A f \in Forwarders : task[f] = "returned"

\* C35: once the root context is cancelled, the router, the connection
\* supervisors with their readers, the writers, the pingers, the forwarders,
\* the schedulers and the category watcher eventually have all returned, and
\* Miner.Run has returned.
C35_CancelTerminates == ctxDone ~> (AllTerminated /\ returned)

\* Miner.Run has returned after a reconnect: the goroutines of the new
\* connection and every other goroutine have returned.
C35_Witness ==
    /\ returned
    /\ AllTerminated
    /\ task.newConn = "returned"
====
